---- MODULE Spec2Model ----
(***************************************************************************)
(* The runtime emitted for examples/code-splitting-bundle-loader:          *)
(* the module cache (__webpack_require__), the JSONP chunk loading         *)
(* runtime (__webpack_require__.f.j, onScriptComplete, the timeout timer,  *)
(* webpackJsonpCallback) and the bundle-loader wrapper (module 1).         *)
(*                                                                         *)
(* One TLA+ step is one task or microtask of the single-threaded host:     *)
(* the bootstrap, a call of __webpack_require__.e by some module, a script *)
(* that executes, a load/error event, the timer, a promise reaction.       *)
(***************************************************************************)
EXTENDS Integers, Sequences, FiniteSets, TLC

\* ------------------------------------------------------------------ bounds
\* calls of __webpack_require__.e made by modules other than the wrapper
MaxRequests == 1
\* script elements the model lets the runtime create
MaxLoads == 2
\* chunk files pushed by scripts the runtime did not create (tags of the page)
MaxPushes == 1
\* callbacks handed to the function exported by the bundle-loader wrapper
MaxCallbacks == 2
\* requires written in the factories of a bundle, in all
MaxEdges == 4
\* frames of __webpack_require__ on the stack
MaxStack == 4
\* dependency edges of a module graph
MaxDeps == 3
\* modules (or chunks) that get an id
MaxEntities == 3
\* modules of a compilation that LibManifestPlugin looks at
MaxModules == 2
\* the sources of one source map
MaxSources == 3
\* the calls of __webpack_require__ that have ended
MaxReturns == 5
\* the modules handed to the parser, and the uses of `module` in one of them
MaxParsed == 2
MaxUses == 2

\* --------------------------------------------------------- installedChunks
\* undefined = chunk not loaded, 0 = chunk loaded, a Promise triple
\* [resolve, reject, promise] = chunk loading.  The triple of the n-th script
\* element is written n (n >= 1), so an entry is truthy iff it is >= 1.
Undefined == -1
Loaded == 0

Truthy(entry) == entry >= 1

\* 404 is the entry chunk, 396 the chunk of file.js; 397 stands for any
\* further chunk id a page can request or push.
ChunkIds == {396, 397, 404}

\* the chunk the wrapper awaits, and the module it requires from it
WrapperChunk == 396
WrapperInner == 2

ModuleIds == {0, 1, 2, 3}
\* the modules of a bundle whose factories require each other
GraphModules == {0, 1, 2}

\* the modules of output.js (the array handed to the bootstrap)
EntryModules == {0, 1}

\* __webpack_require__.p + __webpack_require__.u(chunkId)
ScriptUrl(chunkId) == <<"dist/", chunkId, ".output.js">>

\* The data arrays chunk files push: [chunkIds, moreModules, , runtime].
\* 396.output.js is the emitted file; the others are files of further chunks.
ChunkFiles ==
    { [chunkIds |-> <<396>>, moreModules |-> {2}, runtime |-> FALSE],
      [chunkIds |-> <<397>>, moreModules |-> {3}, runtime |-> TRUE],
      [chunkIds |-> <<397, 396>>, moreModules |-> {2, 3}, runtime |-> TRUE] }

\* what the factory of a module assigns to module.exports
FactoryExports(moduleId) ==
    CASE moduleId = 1 -> "function(cb)"
      [] moduleId = 2 -> "It works"
      [] OTHER -> "{}"

VARIABLES
    started,           \* the bootstrap has run __webpack_require__(0)
    installedChunks,   \* chunk id -> Undefined | Loaded | script element n
    loads,             \* the script elements created, with promise and timer
    modules,           \* __webpack_require__.m: ids that have a factory
    installedModules,  \* the module cache
    injected,          \* chunk files whose runtime injector has run
    jsonpArray,        \* what parentJsonpFunction appended to webpackJsonp
    requests,          \* history: every call of __webpack_require__.f.j
    resolveCalls,      \* history: every resolve() of webpackJsonpCallback
    rejectCalls,       \* history: every reportError(error)
    pushes,            \* number of pushes by scripts of the page
    cbs,               \* wrapper: the buffered callbacks, or null
    data,              \* wrapper: the exports of the inner module
    wrapper,           \* wrapper: the promise chain of line 99..106
    registered,        \* history: every call of the exported function
    calls              \* history: every callback invocation

\* the variables of the chunk loading runtime and of the wrapper
runtimeVars == <<started, installedChunks, loads, modules, installedModules,
          injected, jsonpArray, requests, resolveCalls, rejectCalls, pushes,
          cbs, data, wrapper, registered, calls>>

VARIABLES
    graph,             \* module id -> the modules its factory requires, in order
    stack,             \* the factories executing: module and next require
    runs,              \* module id -> number of executions of its factory
    returns            \* history: what each nested __webpack_require__ returned

\* the variables of the walk of __webpack_require__ over a require graph
requireVars == <<graph, stack, runs, returns>>

VARIABLES
    deps,              \* the dependency edges of the module graph
    chunks,            \* the chunks made so far
    queue,             \* the modules still to be placed: <<chunk, module>>
    phase              \* "graph", "split" or "done"

\* the variables of the code splitter
splitVars == <<deps, chunks, queue, phase>>

VARIABLES
    entities,          \* the live modules (or chunks) in discovery order
    assigned           \* the outcome of the id assignment

\* the variables of the id assignment
idVars == <<entities, assigned>>

VARIABLES
    options,           \* the options handed to WebpackOptionsApply.process
    applied,           \* the plugins process has applied to the compiler
    processed          \* process is "pending", has "returned" or has "thrown"

\* the variables of WebpackOptionsApply
applyVars == <<options, applied, processed>>

VARIABLES
    libModules,        \* the modules of the compilation, ordered by id
    libRun,            \* the options and chunks LibManifestPlugin ran with
    outputFiles        \* what was written to compiler.outputFileSystem

\* the variables of LibManifestPlugin
libVars == <<libModules, libRun, outputFiles>>

VARIABLES
    sourceMap          \* the source map the eval-source-map template renders

\* the variables of the module templates
templateVars == <<sourceMap>>

VARIABLES
    parsedModules,     \* the modules the parser walked, with their dependencies
    chunkRuntime       \* the runtime requirements and runtime modules of the chunk

\* the variables of NodeStuffPlugin
nodeStuffVars == <<parsedModules, chunkRuntime>>

\* the variables of the build
buildVars == <<splitVars, idVars, applyVars, libVars, templateVars, nodeStuffVars>>

\* what no step of the chunk loading runtime changes
notRuntimeVars == <<requireVars, buildVars>>

vars == <<runtimeVars, notRuntimeVars>>

LoadIds == 1..Len(loads)

NoError == [type |-> "none", request |-> <<>>, message |-> <<>>]

\* --------------------------------------------------------------- promises
\* A promise settles once: resolve and reject of a settled promise do nothing.
Settle(ls, n, outcome, error) ==
    IF ls[n].promise = "pending"
    THEN [ls EXCEPT ![n].promise = outcome, ![n].error = error]
    ELSE ls

\* Promise.all over the promises f.j pushed (none, or one)
PromiseAll(promises) ==
    IF \E i \in 1..Len(promises) : loads[promises[i]].promise = "rejected"
    THEN "rejected"
    ELSE IF \A i \in 1..Len(promises) : loads[promises[i]].promise = "resolved"
    THEN "resolved"
    ELSE "pending"

\* ---------------------------------------------- __webpack_require__.f.j
\* The branch f.j takes on the entry of the chunk (lines 156..161).
RequestBranch_AlwaysLoad(entry) ==
    IF entry # Loaded THEN "load" ELSE "installed"

RequestBranch(entry) ==
    IF entry # Loaded
    THEN IF Truthy(entry) THEN "loading" ELSE "load"
    ELSE "installed"

\* the script element f.j creates: promise pending, handlers set, timer armed
NewLoad(chunkId) ==
    [chunkId |-> chunkId, src |-> ScriptUrl(chunkId), promise |-> "pending",
     error |-> NoError, handlers |-> TRUE, timer |-> "active",
     script |-> "fetching"]

\* f.j(chunkId, promises): the entries and script elements afterwards, and
\* the promises it pushed
EnsureChunk(ic, ls, chunkId) ==
    LET branch == RequestBranch(ic[chunkId])
    IN  CASE branch = "installed" ->
               [ic |-> ic, loads |-> ls, promises |-> <<>>]
          [] branch = "loading" ->
               [ic |-> ic, loads |-> ls, promises |-> <<ic[chunkId]>>]
          [] branch = "load" ->
               [ic |-> [ic EXCEPT ![chunkId] = Len(ls) + 1],
                loads |-> Append(ls, NewLoad(chunkId)),
                promises |-> <<Len(ls) + 1>>]

\* f.j creates a script element unless the chunk is loaded or loading
StartsLoad(ic, chunkId) == RequestBranch(ic[chunkId]) = "load"

\* ------------------------------------------------------- onScriptComplete
\* loadingEnded (line 170): the reject function to report to (0: none), and
\* the entries afterwards
loadingEnded_NoLoadedCheck(ic, chunkId) ==
    IF Truthy(ic[chunkId])
    THEN [reportError |-> ic[chunkId], ic |-> ic]
    ELSE [reportError |-> 0, ic |-> [ic EXCEPT ![chunkId] = Undefined]]

loadingEnded_GlobalRollback(ic, chunkId) ==
    IF Truthy(ic[chunkId])
    THEN [reportError |-> ic[chunkId],
          ic |-> [c \in DOMAIN ic |-> IF c = chunkId THEN ic[c] ELSE Undefined]]
    ELSE IF ic[chunkId] # Loaded
    THEN [reportError |-> 0, ic |-> [ic EXCEPT ![chunkId] = Undefined]]
    ELSE [reportError |-> 0, ic |-> ic]

loadingEnded(ic, chunkId) ==
    IF Truthy(ic[chunkId])
    THEN [reportError |-> ic[chunkId], ic |-> ic]
    ELSE IF ic[chunkId] # Loaded
    THEN [reportError |-> 0, ic |-> [ic EXCEPT ![chunkId] = Undefined]]
    ELSE [reportError |-> 0, ic |-> ic]

\* line 187
ErrorType_EventType(event) == event.type

ErrorType(event) == IF event.type = "load" THEN "missing" ELSE event.type

\* the event the timer hands to onScriptComplete (line 196)
TimeoutEvent_Error(n) == [type |-> "error", src |-> loads[n].src]

TimeoutEvent(n) == [type |-> "timeout", src |-> loads[n].src]

\* the event the browser dispatches on the script element
ScriptEvent(n, type) == [type |-> type, src |-> loads[n].src]

\* lines 189..191
ChunkLoadError(chunkId, event) ==
    [type |-> ErrorType(event), request |-> event.src,
     message |-> <<"Loading chunk ", chunkId, " failed.\n(", ErrorType(event),
                   ": ", event.src, ")">>]

\* script.onerror = script.onload = null; clearTimeout(timeout)
Detach_KeepHandlers(ls, n) ==
    [ls EXCEPT ![n].timer = IF @ = "active" THEN "cleared" ELSE @]

Detach(ls, n) ==
    [ls EXCEPT ![n].handlers = FALSE,
               ![n].timer = IF @ = "active" THEN "cleared" ELSE @]

\* onScriptComplete(event) of script element n (lines 181..194), applied to
\* st = [ic, loads, rejectCalls]
onScriptComplete(st, n, event) ==
    LET chunkId == st.loads[n].chunkId
        ended == loadingEnded(st.ic, chunkId)
        detached == Detach(st.loads, n)
        error == ChunkLoadError(chunkId, event)
    IN  IF ended.reportError # 0
        THEN [ic |-> ended.ic,
              loads |-> Settle(detached, ended.reportError, "rejected", error),
              rejectCalls |-> Append(st.rejectCalls,
                  [load |-> ended.reportError, by |-> n, error |-> error,
                   event |-> event.type,
                   pending |-> st.loads[ended.reportError].promise = "pending"])]
        ELSE [ic |-> ended.ic, loads |-> detached,
              rejectCalls |-> st.rejectCalls]

\* --------------------------------------------------- webpackJsonpCallback
\* One round of the first loop (lines 227..231), on
\* st = [ic, loads, modules, injected, jsonpArray, resolves, resolveCalls]
MarkChunk_OnlyRequested(st, chunkId) ==
    IF Truthy(st.ic[chunkId])
    THEN [st EXCEPT !.resolves = Append(@, st.ic[chunkId]),
                    !.ic[chunkId] = Loaded]
    ELSE st

MarkChunk(st, chunkId) ==
    IF Truthy(st.ic[chunkId])
    THEN [st EXCEPT !.resolves = Append(@, st.ic[chunkId]),
                    !.ic[chunkId] = Loaded]
    ELSE [st EXCEPT !.ic[chunkId] = Loaded]

RECURSIVE MarkChunks(_, _, _)
MarkChunks(st, chunkIds, i) ==
    IF i > Len(chunkIds) THEN st
    ELSE MarkChunks(MarkChunk(st, chunkIds[i]), chunkIds, i + 1)

\* lines 233..237
MergeModules(st, moreModules) == [st EXCEPT !.modules = @ \cup moreModules]

\* line 238
RunRuntime(st, file) ==
    IF file.runtime THEN [st EXCEPT !.injected = @ \cup {file.chunkIds}]
    ELSE st

\* line 239: parentJsonpFunction is the push of the webpackJsonp array
ParentJsonp(st, file) == [st EXCEPT !.jsonpArray = Append(@, file)]

\* lines 241..243; each resolve() is logged with the state it is invoked in
RECURSIVE ResolveAll(_, _)
ResolveAll(st, file) ==
    IF st.resolves = <<>> THEN st
    ELSE LET n == Head(st.resolves)
         IN ResolveAll(
              [st EXCEPT !.resolves = Tail(@),
                         !.loads = Settle(@, n, "resolved", NoError),
                         !.resolveCalls = Append(@,
                             [load |-> n, file |-> file, ic |-> st.ic,
                              modules |-> st.modules,
                              injected |-> st.injected])],
              file)

webpackJsonpCallback_ResolveFirst(st, file) ==
    ParentJsonp(RunRuntime(MergeModules(
        ResolveAll(MarkChunks(st, file.chunkIds, 1), file),
        file.moreModules), file), file)

webpackJsonpCallback(st, file) ==
    ResolveAll(
        ParentJsonp(RunRuntime(MergeModules(
            MarkChunks(st, file.chunkIds, 1), file.moreModules), file), file),
        file)

\* the state webpackJsonpCallback works on
JsonpState ==
    [ic |-> installedChunks, loads |-> loads, modules |-> modules,
     injected |-> injected, jsonpArray |-> jsonpArray, resolves |-> <<>>,
     resolveCalls |-> resolveCalls]

\* ---------------------------------------------------- __webpack_require__
NotInstalled == [cached |-> FALSE, l |-> FALSE, exports |-> "undefined"]

\* __webpack_require__(moduleId) for a module whose factory only assigns its
\* exports (lines 31..52): the cache afterwards and the value returned.  A
\* missing factory throws at line 45, after the record was put into the cache.
webpackRequire(im, mods, moduleId) ==
    IF im[moduleId].cached
    THEN [im |-> im, threw |-> FALSE, exports |-> im[moduleId].exports]
    ELSE IF moduleId \notin mods
    THEN [im |-> [im EXCEPT ![moduleId] =
                     [cached |-> TRUE, l |-> FALSE, exports |-> "{}"]],
          threw |-> TRUE, exports |-> "undefined"]
    ELSE [im |-> [im EXCEPT ![moduleId] =
                     [cached |-> TRUE, l |-> TRUE,
                      exports |-> FactoryExports(moduleId)]],
          threw |-> FALSE, exports |-> FactoryExports(moduleId)]

\* ---------------------------------------------------- the host's schedule
\* A reaction of the wrapper's promise chain is queued: it runs before the
\* host starts any other task.
MicrotaskPending ==
    /\ wrapper.settled = "pending"
    /\ PromiseAll(wrapper.promises) # "pending"

\* A script has executed and its load event is not dispatched yet: the event
\* follows the script in the same task, after the microtasks.
LoadEventPending == \E n \in LoadIds : loads[n].script = "executed"

Idle == started /\ ~MicrotaskPending /\ ~LoadEventPending

\* the build has not started: the module graph has no edge yet
SplitIdle ==
    /\ deps = {}
    /\ chunks = <<>>
    /\ queue = <<>>
    /\ phase = "graph"

\* nothing walks a require graph: the modules of the example require only
\* the wrapper, which Startup runs in one step
RequireIdle ==
    /\ graph = [m \in GraphModules |-> <<>>]
    /\ stack = <<>>
    /\ runs = [m \in GraphModules |-> 0]
    /\ returns = <<>>

\* no id was assigned yet
IdIdle ==
    /\ entities = <<>>
    /\ assigned = [scope |-> "none", strategy |-> "none", status |-> "none",
                   ids |-> <<>>]

\* no options were given yet
ApplyIdle ==
    /\ options = [given |-> FALSE, moduleIds |-> "", chunkIds |-> "",
                  target |-> [type |-> "string", value |-> "web"],
                  inputFileSystem |-> TRUE]
    /\ applied = <<>>
    /\ processed = [state |-> "pending", message |-> <<>>]

\* nothing was emitted yet
LibIdle ==
    /\ libModules = <<>>
    /\ libRun = [emitted |-> FALSE, entryOnly |-> FALSE, format |-> FALSE,
                 onlyInitial |-> [c \in 1..2 |-> FALSE]]
    /\ outputFiles = <<>>

\* no module was rendered yet
TemplateIdle ==
    sourceMap = [sources |-> <<>>, rendered |-> FALSE]

\* no module was parsed yet
NodeStuffIdle ==
    /\ parsedModules = <<>>
    /\ chunkRuntime = [processed |-> FALSE, requirements |-> {}, runtimeModules |-> <<>>]

\* no build is going on
BuildIdle ==
    SplitIdle /\ IdIdle /\ ApplyIdle /\ LibIdle /\ TemplateIdle /\ NodeStuffIdle

\* ------------------------------------------------------------------- Init
Init ==
    /\ started = FALSE
    /\ installedChunks = [c \in ChunkIds |-> IF c = 404 THEN Loaded ELSE Undefined]
    /\ loads = <<>>
    /\ modules = EntryModules
    /\ installedModules = [i \in ModuleIds |-> NotInstalled]
    /\ injected = {}
    /\ jsonpArray = <<>>
    /\ requests = <<>>
    /\ resolveCalls = <<>>
    /\ rejectCalls = <<>>
    /\ pushes = 0
    /\ cbs = [null |-> FALSE, items |-> <<>>]
    /\ data = "undefined"
    /\ wrapper = [promises |-> <<>>, settled |-> "none", drained |-> <<>>]
    /\ registered = <<>>
    /\ calls = <<>>
    /\ RequireIdle
    /\ BuildIdle

\* ---------------------------------------------------------------- actions
\* the call of the function module 1 exports (lines 95..98)
RegisterCallback_NoElse(c, cb, d) ==
    IF ~c.null
    THEN [cbs |-> [c EXCEPT !.items = Append(@, cb)], called |-> <<>>]
    ELSE [cbs |-> c, called |-> <<>>]

RegisterCallback(c, cb, d) ==
    IF ~c.null
    THEN [cbs |-> [c EXCEPT !.items = Append(@, cb)], called |-> <<>>]
    ELSE [cbs |-> c, called |-> <<[cb |-> cb, arg |-> d]>>]

\* the loop of lines 103..105: the invocations, in order
DrainCallbacks_Reversed(callbacks, d) ==
    [i \in 1..Len(callbacks) |->
        [cb |-> callbacks[Len(callbacks) + 1 - i], arg |-> d]]

DrainCallbacks(callbacks, d) ==
    [i \in 1..Len(callbacks) |-> [cb |-> callbacks[i], arg |-> d]]

\* what the history keeps of a call of f.j
RequestRecord(who, chunkId, res) ==
    [who |-> who, chunkId |-> chunkId, before |-> installedChunks[chunkId],
     promises |-> res.promises]

\* What a callback handed to the wrapper does when it is invoked: the one of
\* example.js only logs its argument (lines 79..81); a callback may as well
\* request a chunk, or call the wrapper's export again with a callback that
\* requests a chunk.
Kinds == {"log", "register", "ensure"}
\* ... or throw
AllKinds == Kinds \cup {"throw"}
EnsuredChunk == 397

\* the part of the state a running callback can read and write
WrapperState ==
    [cbs |-> cbs, data |-> data, calls |-> calls, registered |-> registered,
     settled |-> wrapper.settled, ic |-> installedChunks, loads |-> loads,
     requests |-> requests, threw |-> FALSE]

RECURSIVE ExportedFn(_, _, _)
RECURSIVE RunCalls(_, _, _, _)

\* One invocation cb(arg) (lines 97 and 104).  frame is 0 when the loop of
\* the promise reaction makes the call, and the callback being registered when
\* the wrapper's export makes it.  Callbacks are numbered in the order of
\* their registration.  A callback that throws leaves threw set: the
\* exception leaves every function on the stack, none of which catches it.
Invoke(st, inv, frame) ==
    LET logged == [st EXCEPT !.calls =
                       Append(@, [cb |-> inv.cb, arg |-> inv.arg, frame |-> frame])]
        kind == st.registered[inv.cb].kind
    IN  CASE kind = "log" -> logged
          [] kind = "throw" -> [logged EXCEPT !.threw = TRUE]
          [] kind = "register" -> ExportedFn(logged, "ensure", inv.cb)
          [] kind = "ensure" ->
                LET res == EnsureChunk(logged.ic, logged.loads, EnsuredChunk)
                IN  [logged EXCEPT
                       !.ic = res.ic,
                       !.loads = res.loads,
                       !.requests = Append(@,
                           [who |-> "callback", chunkId |-> EnsuredChunk,
                            before |-> logged.ic[EnsuredChunk],
                            promises |-> res.promises])]

\* the invocations invs[i], invs[i+1], ... one after the other, up to the
\* first that throws
RunCalls(st, invs, i, frame) ==
    IF i > Len(invs) \/ st.threw THEN st
    ELSE RunCalls(Invoke(st, invs[i], frame), invs, i + 1, frame)

ExportedFn_FromReaction(st, kind, by) ==
    LET cb == Len(st.registered) + 1
        reg == RegisterCallback(st.cbs, cb, st.data)
        st1 == [st EXCEPT
                  !.cbs = reg.cbs,
                  !.registered = Append(@,
                      [cb |-> cb, kind |-> kind, by |-> by,
                       buffered |-> ~st.cbs.null,
                       settled |-> st.settled,
                       chunk |-> st.ic[WrapperChunk]])]
    IN  RunCalls(st1, reg.called, 1, 0)

\* module.exports = function(cb) {...} (lines 95..98) called with a new
\* callback of the given kind; by is 0 when a module calls it in a task of
\* its own, and the running callback when a callback calls it
ExportedFn(st, kind, by) ==
    LET cb == Len(st.registered) + 1
        reg == RegisterCallback(st.cbs, cb, st.data)
        st1 == [st EXCEPT
                  !.cbs = reg.cbs,
                  !.registered = Append(@,
                      [cb |-> cb, kind |-> kind, by |-> by,
                       buffered |-> ~st.cbs.null,
                       settled |-> st.settled,
                       chunk |-> st.ic[WrapperChunk]])]
    IN  RunCalls(st1, reg.called, 1, cb)

\* The function given to .then (lines 99..105), once the inner module was
\* required: the state when it returns and the list `callbacks` as it is
\* when the loop has ended.
ThenReaction_NullAfterLoop(st, exports) ==
    LET callbacks == st.cbs.items
        st1 == [st EXCEPT !.data = exports, !.settled = "fulfilled"]
        st2 == RunCalls(st1, DrainCallbacks(callbacks, exports), 1, 0)
    IN  [st |-> [st2 EXCEPT !.cbs = [null |-> TRUE, items |-> <<>>]],
         drained |-> st2.cbs.items]

ThenReaction_KeepsList(st, exports) ==
    LET callbacks == st.cbs.items
        st1 == [st EXCEPT !.data = exports, !.settled = "fulfilled"]
        st2 == RunCalls(st1, DrainCallbacks(callbacks, exports), 1, 0)
    IN  [st |-> st2, drained |-> callbacks]

ThenReaction(st, exports) ==
    LET callbacks == st.cbs.items
        st1 == [st EXCEPT !.data = exports, !.settled = "fulfilled",
                          !.cbs = [null |-> TRUE, items |-> <<>>]]
        st2 == RunCalls(st1, DrainCallbacks(callbacks, exports), 1, 0)
    IN  [st |-> st2, drained |-> callbacks]

\* The bootstrap (line 62): __webpack_require__(0) runs example.js, which
\* requires the wrapper (module 1: lines 93..106) and calls its export with
\* the first callback.
Startup ==
    /\ ~started
    /\ LET res == EnsureChunk(installedChunks, loads, WrapperChunk)
           st0 == [WrapperState EXCEPT
                     !.cbs = [null |-> FALSE, items |-> <<>>],
                     !.settled = "pending",
                     !.ic = res.ic,
                     !.loads = res.loads,
                     !.requests = Append(@, RequestRecord("wrapper", WrapperChunk, res))]
           st == ExportedFn(st0, "log", 0)
       IN  /\ started' = TRUE
           /\ installedModules' =
                 [installedModules EXCEPT
                    ![0] = [cached |-> TRUE, l |-> TRUE, exports |-> FactoryExports(0)],
                    ![1] = [cached |-> TRUE, l |-> TRUE, exports |-> FactoryExports(1)]]
           /\ installedChunks' = st.ic
           /\ loads' = st.loads
           /\ requests' = st.requests
           /\ wrapper' = [promises |-> res.promises, settled |-> "pending",
                          drained |-> <<>>]
           /\ cbs' = st.cbs
           /\ calls' = st.calls
           /\ registered' = st.registered
    /\ UNCHANGED <<modules, injected, jsonpArray, resolveCalls, rejectCalls,
                   pushes, data>>
    /\ UNCHANGED notRuntimeVars

\* some module calls __webpack_require__.e(chunkId) (lines 123..125, 153..206)
RequireEnsure(chunkId) ==
    /\ Idle
    /\ Len(requests) < MaxRequests + 1
    /\ StartsLoad(installedChunks, chunkId) => Len(loads) < MaxLoads
    /\ LET res == EnsureChunk(installedChunks, loads, chunkId)
       IN  /\ installedChunks' = res.ic
           /\ loads' = res.loads
           /\ requests' = Append(requests, RequestRecord("module", chunkId, res))
    /\ UNCHANGED <<started, modules, installedModules, injected, jsonpArray,
                   resolveCalls, rejectCalls, pushes, cbs, data, wrapper,
                   registered, calls>>
    /\ UNCHANGED notRuntimeVars

\* the effect of a chunk file's push on the loader's variables
Push(st0, file) ==
    \E st \in {webpackJsonpCallback(st0, file)} :
        /\ installedChunks' = st.ic
        /\ loads' = st.loads
        /\ modules' = st.modules
        /\ injected' = st.injected
        /\ jsonpArray' = st.jsonpArray
        /\ resolveCalls' = st.resolveCalls

\* A script tag of the page, not created by the runtime, pushes a chunk file.
PagePush(file) ==
    /\ Idle
    /\ pushes < MaxPushes
    /\ pushes' = pushes + 1
    /\ Push(JsonpState, file)
    /\ UNCHANGED <<started, installedModules, requests, rejectCalls, cbs, data,
                   wrapper, registered, calls>>
    /\ UNCHANGED notRuntimeVars

\* the effect of onScriptComplete(event) of script element n on the loader's
\* variables, from the script elements ls
Complete(ls, n, event) ==
    \E st \in {onScriptComplete(
                 [ic |-> installedChunks, loads |-> ls,
                  rejectCalls |-> rejectCalls], n, event)} :
        /\ installedChunks' = st.ic
        /\ loads' = st.loads
        /\ rejectCalls' = st.rejectCalls

\* The script of element n arrives and runs: it is the chunk file `file`.
\* Nothing removes the element, so this can also happen after the timer fired.
ScriptExecute(n, file) ==
    /\ Idle
    /\ loads[n].script = "fetching"
    /\ Push([JsonpState EXCEPT !.loads[n].script = "executed"], file)
    /\ UNCHANGED <<started, installedModules, requests, rejectCalls, pushes,
                   cbs, data, wrapper, registered, calls>>
    /\ UNCHANGED notRuntimeVars

\* The script of element n arrives and runs, and pushes no chunk.
ScriptExecuteOther(n) ==
    /\ Idle
    /\ loads[n].script = "fetching"
    /\ loads' = [loads EXCEPT ![n].script = "executed"]
    /\ UNCHANGED <<started, installedChunks, modules, installedModules,
                   injected, jsonpArray, requests, resolveCalls, rejectCalls,
                   pushes, cbs, data, wrapper, registered, calls>>
    /\ UNCHANGED notRuntimeVars

\* the load event of script element n; script.onload is called if still set
LoadEvent(n) ==
    /\ started
    /\ ~MicrotaskPending
    /\ loads[n].script = "executed"
    /\ LET ls == [loads EXCEPT ![n].script = "done"]
       IN  IF loads[n].handlers
           THEN Complete(ls, n, ScriptEvent(n, "load"))
           ELSE /\ loads' = ls
                /\ UNCHANGED <<installedChunks, rejectCalls>>
    /\ UNCHANGED <<started, modules, installedModules, injected, jsonpArray,
                   requests, resolveCalls, pushes, cbs, data, wrapper,
                   registered, calls>>
    /\ UNCHANGED notRuntimeVars

\* the error event of script element n; script.onerror is called if still set
ErrorEvent(n) ==
    /\ Idle
    /\ loads[n].script = "fetching"
    /\ LET ls == [loads EXCEPT ![n].script = "failed"]
       IN  IF loads[n].handlers
           THEN Complete(ls, n, ScriptEvent(n, "error"))
           ELSE /\ loads' = ls
                /\ UNCHANGED <<installedChunks, rejectCalls>>
    /\ UNCHANGED <<started, modules, installedModules, injected, jsonpArray,
                   requests, resolveCalls, pushes, cbs, data, wrapper,
                   registered, calls>>
    /\ UNCHANGED notRuntimeVars

\* the timer of script element n fires (lines 195..197)
Timeout(n) ==
    /\ Idle
    /\ loads[n].timer = "active"
    /\ Complete([loads EXCEPT ![n].timer = "fired"], n, TimeoutEvent(n))
    /\ UNCHANGED <<started, modules, installedModules, injected, jsonpArray,
                   requests, resolveCalls, pushes, cbs, data, wrapper,
                   registered, calls>>
    /\ UNCHANGED notRuntimeVars

\* some module calls the function the wrapper exports with a new callback
RegisterKind(kind) ==
    /\ Idle
    /\ Len(registered) < MaxCallbacks
    /\ \E st \in {ExportedFn(WrapperState, kind, 0)} :
           /\ cbs' = st.cbs
           /\ calls' = st.calls
           /\ registered' = st.registered
           /\ installedChunks' = st.ic
           /\ loads' = st.loads
           /\ requests' = st.requests
    /\ UNCHANGED <<started, modules, installedModules, injected, jsonpArray,
                   resolveCalls, rejectCalls, pushes, data, wrapper>>
    /\ UNCHANGED notRuntimeVars

\* ... with a callback like the one of example.js, which only logs
Register == RegisterKind("log")

\* the reaction of .then (lines 99..105) once the chunk promise is fulfilled
WrapperThen ==
    /\ wrapper.settled = "pending"
    /\ PromiseAll(wrapper.promises) = "resolved"
    /\ \E req \in {webpackRequire(installedModules, modules, WrapperInner)} :
       \E res \in {ThenReaction(WrapperState, req.exports)} :
           /\ installedModules' = req.im
           /\ IF req.threw
              THEN /\ wrapper' = [wrapper EXCEPT !.settled = "rejected"]
                   /\ UNCHANGED <<data, cbs, calls, registered,
                                  installedChunks, loads, requests>>
              ELSE /\ wrapper' = [wrapper EXCEPT !.settled = "fulfilled",
                                                 !.drained = res.drained]
                   /\ data' = res.st.data
                   /\ cbs' = res.st.cbs
                   /\ calls' = res.st.calls
                   /\ registered' = res.st.registered
                   /\ installedChunks' = res.st.ic
                   /\ loads' = res.st.loads
                   /\ requests' = res.st.requests
    /\ UNCHANGED <<started, modules, injected, jsonpArray, resolveCalls,
                   rejectCalls, pushes>>
    /\ UNCHANGED notRuntimeVars

\* the reaction of .catch (line 106) once the chunk promise is rejected;
\* this runtime defines no __webpack_require__.oe, so nothing is called
WrapperCatch_Drains ==
    /\ wrapper.settled = "pending"
    /\ PromiseAll(wrapper.promises) = "rejected"
    /\ wrapper' = [wrapper EXCEPT !.settled = "rejected"]
    /\ cbs' = [null |-> TRUE, items |-> <<>>]
    /\ calls' = calls \o [i \in 1..Len(cbs.items) |->
                            [cb |-> cbs.items[i], arg |-> data, frame |-> 0]]
    /\ UNCHANGED <<started, installedChunks, loads, modules, installedModules,
                   injected, jsonpArray, requests, resolveCalls, rejectCalls,
                   pushes, data, registered>>
    /\ UNCHANGED notRuntimeVars

WrapperCatch ==
    /\ wrapper.settled = "pending"
    /\ PromiseAll(wrapper.promises) = "rejected"
    /\ wrapper' = [wrapper EXCEPT !.settled = "rejected"]
    /\ UNCHANGED <<started, installedChunks, loads, modules, installedModules,
                   injected, jsonpArray, requests, resolveCalls, rejectCalls,
                   pushes, cbs, data, registered, calls>>
    /\ UNCHANGED notRuntimeVars

Next ==
    \/ Startup
    \/ \E c \in ChunkIds : RequireEnsure(c)
    \/ \E f \in ChunkFiles : PagePush(f)
    \/ \E n \in LoadIds : \E f \in ChunkFiles : ScriptExecute(n, f)
    \/ \E n \in LoadIds : ScriptExecuteOther(n)
    \/ \E n \in LoadIds : LoadEvent(n)
    \/ \E n \in LoadIds : ErrorEvent(n)
    \/ \E n \in LoadIds : Timeout(n)
    \/ Register
    \/ WrapperThen
    \/ WrapperCatch

Spec == Init /\ [][Next]_vars

\* The same runtime with callbacks that call the wrapper's export again or
\* request a chunk while they run.
NextR ==
    \/ Startup
    \/ \E kind \in Kinds : RegisterKind(kind)
    \/ \E c \in ChunkIds : RequireEnsure(c)
    \/ \E n \in LoadIds : \E f \in ChunkFiles : ScriptExecute(n, f)
    \/ \E n \in LoadIds : LoadEvent(n)
    \/ \E n \in LoadIds : Timeout(n)
    \/ WrapperThen
    \/ WrapperCatch

SpecR == Init /\ [][NextR]_vars

\* ... or throw
NextRT ==
    \/ Startup
    \/ \E kind \in AllKinds : RegisterKind(kind)
    \/ \E c \in ChunkIds : RequireEnsure(c)
    \/ \E n \in LoadIds : \E f \in ChunkFiles : ScriptExecute(n, f)
    \/ \E n \in LoadIds : LoadEvent(n)
    \/ \E n \in LoadIds : Timeout(n)
    \/ WrapperThen
    \/ WrapperCatch

SpecRT == Init /\ [][NextRT]_vars

\* ------------------------------------- __webpack_require__, step by step
\* A bundle whose factories require each other synchronously: the factory of
\* module m calls __webpack_require__(graph[m][1]), __webpack_require__(
\* graph[m][2]), ... and then assigns its exports.
InitC ==
    /\ started = FALSE
    /\ installedChunks = [c \in ChunkIds |-> IF c = 404 THEN Loaded ELSE Undefined]
    /\ loads = <<>>
    /\ modules = GraphModules
    /\ installedModules = [i \in ModuleIds |-> NotInstalled]
    /\ injected = {}
    /\ jsonpArray = <<>>
    /\ requests = <<>>
    /\ resolveCalls = <<>>
    /\ rejectCalls = <<>>
    /\ pushes = 0
    /\ cbs = [null |-> FALSE, items |-> <<>>]
    /\ data = "undefined"
    /\ wrapper = [promises |-> <<>>, settled |-> "none", drained |-> <<>>]
    /\ registered = <<>>
    /\ calls = <<>>
    /\ RequireIdle
    /\ BuildIdle

RECURSIVE SumLen(_, _)
SumLen(g, ms) ==
    IF ms = {} THEN 0
    ELSE LET m == CHOOSE x \in ms : TRUE
         IN  Len(g[m]) + SumLen(g, ms \ {m})

\* the bundle is written: the factory of m gets one more require
AddRequire(m, t) ==
    /\ ~started
    /\ SumLen(graph, GraphModules) < MaxEdges
    /\ graph' = [graph EXCEPT ![m] = Append(@, t)]
    /\ UNCHANGED <<runtimeVars, stack, runs, returns, buildVars>>

\* line 34: is the module in the cache
CacheHit_OnlyLoaded(im, moduleId) == im[moduleId].cached /\ im[moduleId].l

CacheHit(im, moduleId) == im[moduleId].cached

\* lines 38..42: the new record, put into the cache before the factory runs
NewModule(im, moduleId) ==
    [im EXCEPT ![moduleId] = [cached |-> TRUE, l |-> FALSE, exports |-> "{}"]]

\* __webpack_require__(t) up to the call of the factory (lines 31..45), made
\* by the factory on top of the stack (by = -1: by the bootstrap, line 62)
RequireCall(by, t) ==
    IF CacheHit(installedModules, t)
    THEN /\ returns' = Append(returns,
               [by |-> by, of |-> t, hit |-> TRUE, threw |-> FALSE,
                exports |-> installedModules[t].exports,
                l |-> installedModules[t].l,
                executing |-> \E i \in 1..Len(stack) : stack[i].m = t])
         /\ stack' = IF stack = <<>> THEN stack
                     ELSE [stack EXCEPT ![Len(stack)].pc = @ + 1]
         /\ UNCHANGED <<installedModules, runs>>
    ELSE /\ installedModules' = NewModule(installedModules, t)
         /\ runs' = [runs EXCEPT ![t] = @ + 1]
         /\ stack' = Append(stack, [m |-> t, pc |-> 1])
         /\ UNCHANGED returns

\* line 62: return __webpack_require__(0)
RequireEntry ==
    /\ ~started
    /\ started' = TRUE
    /\ RequireCall(-1, 0)
    /\ UNCHANGED <<installedChunks, loads, modules, injected, jsonpArray,
                   requests, resolveCalls, rejectCalls, pushes, cbs, data,
                   wrapper, registered, calls, graph, buildVars>>

\* the factory on top of the stack calls __webpack_require__ for its next
\* require
FactoryRequire ==
    /\ stack # <<>>
    /\ Len(stack) < MaxStack
    /\ LET top == stack[Len(stack)]
       IN  /\ top.pc <= Len(graph[top.m])
           /\ RequireCall(top.m, graph[top.m][top.pc])
    /\ UNCHANGED <<started, installedChunks, loads, modules, injected,
                   jsonpArray, requests, resolveCalls, rejectCalls, pushes,
                   cbs, data, wrapper, registered, calls, graph, buildVars>>

\* The factory on top of the stack has made its requires: it assigns its
\* exports and returns; __webpack_require__ flags the module as loaded and
\* returns the exports to the caller (lines 48..51).
FactoryReturn ==
    /\ stack # <<>>
    /\ LET top == stack[Len(stack)]
           rest == SubSeq(stack, 1, Len(stack) - 1)
       IN  /\ top.pc > Len(graph[top.m])
           /\ installedModules' =
                 [installedModules EXCEPT
                    ![top.m] = [cached |-> TRUE, l |-> TRUE,
                                exports |-> FactoryExports(top.m)]]
           /\ returns' = Append(returns,
                 [by |-> IF rest = <<>> THEN -1 ELSE rest[Len(rest)].m,
                  of |-> top.m, hit |-> FALSE, threw |-> FALSE,
                  exports |-> FactoryExports(top.m), l |-> TRUE,
                  executing |-> FALSE])
           /\ stack' = IF rest = <<>> THEN rest
                       ELSE [rest EXCEPT ![Len(rest)].pc = @ + 1]
    /\ UNCHANGED <<started, installedChunks, loads, modules, injected,
                   jsonpArray, requests, resolveCalls, rejectCalls, pushes,
                   cbs, data, wrapper, registered, calls, graph, runs, buildVars>>

\* the steps of the JavaScript engine
RunC == RequireEntry \/ FactoryRequire \/ FactoryReturn

NextC ==
    \/ \E m \in GraphModules : \E t \in GraphModules : AddRequire(m, t)
    \/ RequireEntry
    \/ FactoryRequire
    \/ FactoryReturn

SpecC == InitC /\ [][NextC]_vars

\* the engine runs a call to completion
SpecCFair == SpecC /\ WF_vars(FactoryRequire \/ FactoryReturn)

\* The calls of __webpack_require__ an exception leaves: those of the frames
\* above frame k, the innermost first.  Nothing is returned to their callers.
ThrownCalls(st, k) ==
    [i \in 1..(Len(st) - k) |->
        LET f == Len(st) + 1 - i
        IN  [by |-> IF f = 1 THEN -1 ELSE st[f - 1].m, of |-> st[f].m,
             hit |-> FALSE, threw |-> TRUE, exports |-> "undefined",
             l |-> FALSE, executing |-> FALSE]]

\* __webpack_require__ has no try around the call of the factory (line 45):
\* the records of the modules ms, whose factories an exception left, stay
\* as they are
AfterThrow_Deletes(im, ms) ==
    [m \in DOMAIN im |-> IF m \in ms THEN NotInstalled ELSE im[m]]

AfterThrow(im, ms) == im

\* The factory on top of the stack throws, before or after it assigned its
\* exports.  The factory of frame k catches the exception and goes on; with
\* k = 0 no factory does and the exception leaves the first call.
FactoryThrow(k, exported) ==
    /\ stack # <<>>
    /\ k < Len(stack)
    /\ Len(returns) + Len(stack) - k <= MaxReturns
    /\ LET top == stack[Len(stack)]
           rest == SubSeq(stack, 1, k)
           left == {stack[i].m : i \in (k + 1)..Len(stack)}
           im == IF exported
                 THEN [installedModules EXCEPT ![top.m].exports = FactoryExports(top.m)]
                 ELSE installedModules
       IN  /\ installedModules' = AfterThrow(im, left)
           /\ returns' = returns \o ThrownCalls(stack, k)
           /\ stack' = IF rest = <<>> THEN rest
                       ELSE [rest EXCEPT ![Len(rest)].pc = @ + 1]
    /\ UNCHANGED <<started, installedChunks, loads, modules, injected,
                   jsonpArray, requests, resolveCalls, rejectCalls, pushes,
                   cbs, data, wrapper, registered, calls, graph, runs, buildVars>>

\* a later task calls __webpack_require__(t)
RequireLater(t) ==
    /\ started
    /\ stack = <<>>
    /\ Len(returns) < MaxReturns
    /\ RequireCall(-1, t)
    /\ UNCHANGED <<started, installedChunks, loads, modules, injected,
                   jsonpArray, requests, resolveCalls, rejectCalls, pushes,
                   cbs, data, wrapper, registered, calls, graph, buildVars>>

\* Bundles for the runs with exceptions: module 0 requires module 1 twice
\* and module 1 requires module 2, which requires module 0 or module 1 or
\* nothing.
ThrowGraphs ==
    { [m \in GraphModules |->
          CASE m = 0 -> <<1, 1>> [] m = 1 -> <<2>> [] m = 2 -> tail] :
      tail \in {<<>>, <<0>>, <<1>>} }

InitCT ==
    /\ started = FALSE
    /\ installedChunks = [c \in ChunkIds |-> IF c = 404 THEN Loaded ELSE Undefined]
    /\ loads = <<>>
    /\ modules = GraphModules
    /\ installedModules = [i \in ModuleIds |-> NotInstalled]
    /\ injected = {}
    /\ jsonpArray = <<>>
    /\ requests = <<>>
    /\ resolveCalls = <<>>
    /\ rejectCalls = <<>>
    /\ pushes = 0
    /\ cbs = [null |-> FALSE, items |-> <<>>]
    /\ data = "undefined"
    /\ wrapper = [promises |-> <<>>, settled |-> "none", drained |-> <<>>]
    /\ registered = <<>>
    /\ calls = <<>>
    /\ graph \in ThrowGraphs
    /\ stack = <<>>
    /\ runs = [m \in GraphModules |-> 0]
    /\ returns = <<>>
    /\ BuildIdle

\* the module cache with factories that may throw
NextCT ==
    \/ RequireEntry
    \/ FactoryRequire
    \/ FactoryReturn
    \/ \E k \in 0..MaxStack : \E exported \in BOOLEAN : FactoryThrow(k, exported)
    \/ \E t \in GraphModules : RequireLater(t)

SpecCT == InitCT /\ [][NextCT]_vars

\* ----------------------------------------------------------- CodeSplitter
\* The module graph of a build: modules 0, 1, 2 with module 0 the one entry
\* point, and dependency edges that are synchronous or asynchronous.
EdgeKinds == {"sync", "async"}
EntryModule == 0

\* the edges of the example: example.js requires the wrapper, the wrapper
\* requires file.js inside require.ensure
ExampleDeps ==
    {[from |-> 0, to |-> 1, kind |-> "sync"],
     [from |-> 1, to |-> 2, kind |-> "async"]}

\* what the build of the example reports: chunk id, modules, parents
InfoChunks ==
    {[id |-> 396, modules |-> {2}, parents |-> {404}, entry |-> FALSE],
     [id |-> 404, modules |-> {0, 1}, parents |-> {}, entry |-> TRUE]}

\* a module is added to the graph with one more dependency
AddEdge(from, to, kind) ==
    /\ phase = "graph"
    /\ Cardinality(deps) < MaxDeps
    /\ [from |-> from, to |-> to, kind |-> kind] \notin deps
    /\ deps' = deps \cup {[from |-> from, to |-> to, kind |-> kind]}
    /\ UNCHANGED <<runtimeVars, requireVars, libVars, templateVars, nodeStuffVars, idVars, applyVars, chunks, queue, phase>>

\* a chunk is known by whether it is initial and by the module it is rooted at
ChunkKey(initial, root) == [initial |-> initial, root |-> root]

NewChunk(initial, root, parents) ==
    [key |-> ChunkKey(initial, root), modules |-> {}, parents |-> parents]

HasChunk(cs, key) == \E i \in 1..Len(cs) : cs[i].key = key

IndexOf(cs, key) == CHOOSE i \in 1..Len(cs) : cs[i].key = key

\* does an edge of this kind end the walk of a chunk and open a chunk
OpensChunk_Never(kind) == FALSE

OpensChunk(kind) == kind = "async"

WalkTargets(m) == {e.to : e \in {d \in deps : d.from = m /\ ~OpensChunk(d.kind)}}

BoundaryTargets(m) == {e.to : e \in {d \in deps : d.from = m /\ OpensChunk(d.kind)}}

\* the modules of a set in ascending order
RECURSIVE Ascending(_)
Ascending(ms) ==
    IF ms = {} THEN <<>>
    ELSE LET m == CHOOSE x \in ms : \A y \in ms : x <= y
         IN  <<m>> \o Ascending(ms \ {m})

\* step 2: a chunk for each asynchronous edge of a module placed in the chunk
\* `from`, reused if there is one for the same boundary; st = [chunks, queue]
RECURSIVE OpenBoundaries(_, _, _, _)
OpenBoundaries(st, from, ts, i) ==
    IF i > Len(ts) THEN st
    ELSE LET key == ChunkKey(FALSE, ts[i])
             next ==
                IF HasChunk(st.chunks, key)
                THEN [st EXCEPT
                        !.chunks[IndexOf(st.chunks, key)].parents = @ \cup {from}]
                ELSE [chunks |-> Append(st.chunks, NewChunk(FALSE, ts[i], {from})),
                      queue |-> Append(st.queue, <<key, ts[i]>>)]
         IN  OpenBoundaries(next, from, ts, i + 1)

\* steps 1 and 3: module m is reached in the walk of chunk key
PlaceModule(st, key, m) ==
    LET i == IndexOf(st.chunks, key)
        sync == Ascending(WalkTargets(m))
        placed == [st EXCEPT
                     !.chunks[i].modules = @ \cup {m},
                     !.queue = @ \o [j \in 1..Len(sync) |-> <<key, sync[j]>>]]
    IN  IF m \in st.chunks[i].modules THEN st
        ELSE OpenBoundaries(placed, key, Ascending(BoundaryTargets(m)), 1)

\* step 5
RemoveEmpty(cs) == SelectSeq(cs, LAMBDA c : c.modules # {})

\* step 1: the initial chunk of the entry point
SplitStart ==
    /\ phase = "graph"
    /\ phase' = "split"
    /\ chunks' = <<NewChunk(TRUE, EntryModule, {})>>
    /\ queue' = <<<<ChunkKey(TRUE, EntryModule), EntryModule>>>>
    /\ UNCHANGED <<runtimeVars, requireVars, libVars, templateVars, nodeStuffVars, idVars, applyVars, deps>>

SplitStep ==
    /\ phase = "split"
    /\ queue # <<>>
    /\ LET st == PlaceModule([chunks |-> chunks, queue |-> Tail(queue)],
                             Head(queue)[1], Head(queue)[2])
       IN  /\ chunks' = st.chunks
           /\ queue' = st.queue
    /\ UNCHANGED <<runtimeVars, requireVars, libVars, templateVars, nodeStuffVars, idVars, applyVars, deps, phase>>

SplitFinish ==
    /\ phase = "split"
    /\ queue = <<>>
    /\ phase' = "done"
    /\ chunks' = RemoveEmpty(chunks)
    /\ UNCHANGED <<runtimeVars, requireVars, libVars, templateVars, nodeStuffVars, idVars, applyVars, deps, queue>>

NextS ==
    \/ \E from \in GraphModules : \E to \in GraphModules : \E kind \in EdgeKinds :
          AddEdge(from, to, kind)
    \/ SplitStart
    \/ SplitStep
    \/ SplitFinish

SpecS == Init /\ [][NextS]_vars

\* ------------------------------------------------------------- IdAssigner
\* the values of optimization.moduleIds and optimization.chunkIds that select
\* an id strategy
ModuleIdStrategies == {"natural", "named", "hashed", "deterministic", "size"}
ChunkIdStrategies == {"natural", "named", "deterministic", "size", "total-size"}

StrategiesOf(scope) ==
    IF scope = "module" THEN ModuleIdStrategies ELSE ChunkIdStrategies

\* What a strategy reads of an entity: the name derived from its path, the
\* digest of its identity, the number of its occurrences.  The name a is <<1>>
\* and the name a1 is <<1, 1>>: a suffix is one more element.
Names == {<<1>>, <<1, 1>>}
Digests == {83, 999}
Occurrences == {1, 2}
IdRange == 1000

\* the build discovers one more module (or chunk)
AddEntity(name, digest, occ) ==
    /\ assigned.status = "none"
    /\ Len(entities) < MaxEntities
    /\ entities' = Append(entities, [name |-> name, digest |-> digest, occ |-> occ])
    /\ UNCHANGED <<runtimeVars, requireVars, libVars, templateVars, nodeStuffVars, splitVars, applyVars, assigned>>

\* the earlier entities that agree with entity i on the given attribute
EarlierSame(es, i, attr) == Cardinality({j \in 1..(i - 1) : es[j][attr] = es[i][attr]})

\* natural: the position in the order of discovery
NaturalIds(es) == [i \in 1..Len(es) |-> i - 1]

\* named: the name, suffixed by a counter when an earlier entity has it
NamedCandidate(es, i) ==
    IF EarlierSame(es, i, "name") = 0 THEN es[i].name
    ELSE Append(es[i].name, EarlierSame(es, i, "name"))

\* ... and no id when a candidate is taken already (IdCollisionError)
RECURSIVE NamedIds(_, _, _)
NamedIds(es, i, ids) ==
    IF i > Len(es) THEN [status |-> "ok", ids |-> ids]
    ELSE IF \E j \in 1..Len(ids) : ids[j] = NamedCandidate(es, i)
    THEN [status |-> "collision", ids |-> <<>>]
    ELSE NamedIds(es, i + 1, Append(ids, NamedCandidate(es, i)))

\* hashed: the digest, lengthened when an earlier entity has the same
HashedIds(es) ==
    [i \in 1..Len(es) |-> <<es[i].digest, EarlierSame(es, i, "digest")>>]

\* deterministic: the digest in the id range, moved on to the next free id
FirstFree_NoProbe(used, n) == n

RECURSIVE FirstFree(_, _)
FirstFree(used, n) ==
    IF n \in used THEN FirstFree(used, (n + 1) % IdRange) ELSE n

RECURSIVE DeterministicIds(_, _, _)
DeterministicIds(es, i, ids) ==
    IF i > Len(es) THEN ids
    ELSE DeterministicIds(es, i + 1,
            Append(ids, FirstFree({ids[j] : j \in 1..Len(ids)},
                                  es[i].digest % IdRange)))

\* size, total-size: more occurrences first, ties in the natural order
Before(es, j, i) ==
    \/ es[j].occ > es[i].occ
    \/ es[j].occ = es[i].occ /\ j < i

OccurrenceIds(es) ==
    [i \in 1..Len(es) |-> Cardinality({j \in 1..Len(es) : Before(es, j, i)})]

AssignIds(es, strategy) ==
    CASE strategy = "natural" -> [status |-> "ok", ids |-> NaturalIds(es)]
      [] strategy = "named" -> NamedIds(es, 1, <<>>)
      [] strategy = "hashed" -> [status |-> "ok", ids |-> HashedIds(es)]
      [] strategy = "deterministic" ->
            [status |-> "ok", ids |-> DeterministicIds(es, 1, <<>>)]
      [] strategy \in {"size", "total-size"} ->
            [status |-> "ok", ids |-> OccurrenceIds(es)]

\* the ids of the entities of one scope are assigned with the strategy chosen
Assign(scope, strategy) ==
    /\ assigned.status = "none"
    /\ entities # <<>>
    /\ assigned' = [scope |-> scope, strategy |-> strategy,
                    status |-> AssignIds(entities, strategy).status,
                    ids |-> AssignIds(entities, strategy).ids]
    /\ UNCHANGED <<runtimeVars, requireVars, libVars, templateVars, nodeStuffVars, splitVars, applyVars, entities>>

\* the ids the two builds of the example report
InfoModuleIds == <<<<0, 1, 2>>, <<275, 83, 396>>>>
InfoChunkIds == <<<<404, 396>>, <<404, 396>>>>

NextI ==
    \/ \E name \in Names : \E digest \in Digests : \E occ \in Occurrences :
          AddEntity(name, digest, occ)
    \/ \E scope \in {"module", "chunk"} : \E strategy \in StrategiesOf(scope) :
          Assign(scope, strategy)

SpecI == Init /\ [][NextI]_vars

\* --------------------------------------------- WebpackOptionsApply.process
\* the values the two options are given: none, the recognised ones, and
\* values the other option or an older version recognises
IdOptionValues ==
    {""} \cup ModuleIdStrategies \cup ChunkIdStrategies \cup {"occurrence"}

Plugin(name, arg) == [name |-> name, arg |-> arg]

\* the plugins that assign module ids, and those that assign chunk ids
ModuleIdPlugins ==
    {"NaturalModuleIdsPlugin", "NamedModuleIdsPlugin", "HashedModuleIdsPlugin",
     "DeterministicModuleIdsPlugin", "OccurrenceModuleIdsPlugin"}
ChunkIdPlugins ==
    {"NaturalChunkIdsPlugin", "NamedChunkIdsPlugin",
     "DeterministicChunkIdsPlugin", "OccurrenceChunkIdsPlugin"}

Applies(plugins) == [applied |-> plugins, state |-> "returned", message |-> <<>>]
Throws(option, value) ==
    [applied |-> <<>>, state |-> "thrown",
     message |-> <<"webpack bug: ", option, ": ", value, " is not implemented">>]

\* lines 387..415
ApplyModuleIds_FallThrough(moduleIds) ==
    CASE moduleIds = "" -> Applies(<<>>)
      [] moduleIds = "natural" ->
            Applies(<<Plugin("NaturalModuleIdsPlugin", ""),
                      Plugin("NamedModuleIdsPlugin", "")>>)
      [] OTHER -> Applies(<<Plugin("NamedModuleIdsPlugin", "")>>)

ApplyModuleIds(moduleIds) ==
    CASE moduleIds = "" -> Applies(<<>>)
      [] moduleIds = "natural" -> Applies(<<Plugin("NaturalModuleIdsPlugin", "")>>)
      [] moduleIds = "named" -> Applies(<<Plugin("NamedModuleIdsPlugin", "")>>)
      [] moduleIds = "hashed" ->
            Applies(<<Plugin("WarnDeprecatedOptionPlugin",
                             "optimization.moduleIds, hashed, deterministic"),
                      Plugin("HashedModuleIdsPlugin", "")>>)
      [] moduleIds = "deterministic" ->
            Applies(<<Plugin("DeterministicModuleIdsPlugin", "")>>)
      [] moduleIds = "size" ->
            Applies(<<Plugin("OccurrenceModuleIdsPlugin", "prioritiseInitial: true")>>)
      [] OTHER -> Throws("moduleIds", moduleIds)

\* lines 417..445
ApplyChunkIds(chunkIds) ==
    CASE chunkIds = "" -> Applies(<<>>)
      [] chunkIds = "natural" -> Applies(<<Plugin("NaturalChunkIdsPlugin", "")>>)
      [] chunkIds = "named" -> Applies(<<Plugin("NamedChunkIdsPlugin", "")>>)
      [] chunkIds = "deterministic" ->
            Applies(<<Plugin("DeterministicChunkIdsPlugin", "")>>)
      [] chunkIds = "size" ->
            Applies(<<Plugin("OccurrenceChunkIdsPlugin", "prioritiseInitial: true")>>)
      [] chunkIds = "total-size" ->
            Applies(<<Plugin("OccurrenceChunkIdsPlugin", "prioritiseInitial: false")>>)
      [] OTHER -> Throws("chunkIds", chunkIds)

\* the two switches one after the other: an error ends process
ApplyIdOptions(opts) ==
    LET m == ApplyModuleIds(opts.moduleIds)
        c == ApplyChunkIds(opts.chunkIds)
    IN  IF m.state = "thrown" THEN m
        ELSE [c EXCEPT !.applied = m.applied \o c.applied]

\* options.target: one of the strings process knows, another string, false,
\* or a function
SupportedTargets ==
    {"web", "webworker", "node", "async-node", "node-webkit", "electron-main",
     "electron-renderer"}
TargetValues ==
    {[type |-> "string", value |-> v] : v \in SupportedTargets \cup {"browser"}}
        \cup {[type |-> "boolean", value |-> "false"],
              [type |-> "function", value |-> "function"]}

\* throw new Error("Unsupported target '" + options.target + "'.")
Unsupported(target) ==
    [applied |-> <<>>, state |-> "thrown",
     message |-> <<"Unsupported target '", target.value, "'.">>]

\* lines 99..226: the plugins of a target string
TargetPlugins(value) ==
    LET wasm(name) == Plugin(name, "mangleImports")
        fn == Plugin("FunctionModulePlugin", "")
        startup == Plugin("StartupChunkDependenciesPlugin", "")
    IN  CASE value = "web" ->
               <<Plugin("JsonpTemplatePlugin", ""), wasm("FetchCompileWasmPlugin"),
                 fn, Plugin("NodeSourcePlugin", "options.node"),
                 Plugin("LoaderTargetPlugin", value)>>
          [] value = "webworker" ->
               <<Plugin("WebWorkerTemplatePlugin", ""), wasm("FetchCompileWasmPlugin"),
                 fn, Plugin("NodeSourcePlugin", "options.node"),
                 Plugin("LoaderTargetPlugin", value), startup>>
          [] value \in {"node", "async-node"} ->
               <<Plugin("NodeTemplatePlugin",
                        IF value = "async-node" THEN "asyncChunkLoading: true"
                        ELSE "asyncChunkLoading: false"),
                 wasm("ReadFileCompileWasmPlugin"), fn,
                 Plugin("NodeTargetPlugin", ""), Plugin("LoaderTargetPlugin", "node"),
                 startup>>
          [] value = "node-webkit" ->
               <<Plugin("JsonpTemplatePlugin", ""), fn, Plugin("NodeTargetPlugin", ""),
                 Plugin("ExternalsPlugin", "commonjs"),
                 Plugin("LoaderTargetPlugin", value), startup>>
          [] value = "electron-main" ->
               <<Plugin("NodeTemplatePlugin", "asyncChunkLoading: true"), fn,
                 Plugin("NodeTargetPlugin", ""), Plugin("ExternalsPlugin", "commonjs"),
                 Plugin("LoaderTargetPlugin", value), startup>>
          [] value = "electron-renderer" ->
               <<Plugin("JsonpTemplatePlugin", ""), wasm("FetchCompileWasmPlugin"),
                 fn, Plugin("NodeTargetPlugin", ""),
                 Plugin("ExternalsPlugin", "commonjs"),
                 Plugin("LoaderTargetPlugin", value)>>

\* lines 99..236
ApplyTarget_FalseAccepted(target) ==
    IF target.type = "string"
    THEN IF target.value \in SupportedTargets
         THEN Applies(TargetPlugins(target.value))
         ELSE Unsupported(target)
    ELSE IF target.type # "boolean"
    THEN Applies(<<Plugin("options.target", "call")>>)
    ELSE Applies(<<>>)

ApplyTarget(target) ==
    IF target.type = "string"
    THEN IF target.value \in SupportedTargets
         THEN Applies(TargetPlugins(target.value))
         ELSE Unsupported(target)
    ELSE IF target.type # "boolean"
    THEN Applies(<<Plugin("options.target", "call")>>)
    ELSE Unsupported(target)

\* compiler.hooks.<name>.call(...)
Hook(name) == Plugin(name, "call")

\* Lines 238..385 and 446..492, for options that ask for no library, no
\* externals, no devtool, no cache, no performance hints and none of the
\* optimization plugins, and that set mode: the plugins process applies
\* whatever the options
ModuleTypePlugins ==
    <<Plugin("JavascriptModulesPlugin", ""), Plugin("JsonModulesPlugin", ""),
      Plugin("WebAssemblyModulesPlugin", "mangleImports")>>

EntryOption == <<Plugin("EntryOptionPlugin", ""), Hook("entryOption")>>

ParserPlugins ==
    [i \in 1..20 |->
        Plugin(<<"RuntimePlugin", "CompatibilityPlugin", "HarmonyModulesPlugin",
                 "AMDPlugin", "CommonJsPlugin", "LoaderPlugin", "NodeStuffPlugin",
                 "RequireJsStuffPlugin", "APIPlugin", "ConstPlugin",
                 "UseStrictPlugin", "RequireIncludePlugin", "RequireEnsurePlugin",
                 "RequireContextPlugin", "ImportPlugin", "SystemPlugin",
                 "DefaultStatsFactoryPlugin", "DefaultStatsPresetPlugin",
                 "DefaultStatsPrinterPlugin", "EnsureChunkConditionsPlugin">>[i], "")]

AfterPlugins ==
    <<Plugin("TemplatedPathPlugin", ""), Plugin("RecordIdsPlugin", "portableIds"),
      Plugin("WarnCaseSensitiveModulesPlugin", ""),
      Plugin("ResolverCachePlugin", ""), Hook("afterPlugins")>>

\* lines 495..532
ApplyResolvers_NoCheck(inputFileSystem) ==
    Applies(<<Plugin("resolveOptions", "normal"), Plugin("resolveOptions", "context"),
              Plugin("resolveOptions", "loader"), Hook("afterResolvers")>>)

ApplyResolvers(inputFileSystem) ==
    IF ~inputFileSystem
    THEN [applied |-> <<>>, state |-> "thrown",
          message |-> <<"No input filesystem provided">>]
    ELSE Applies(<<Plugin("resolveOptions", "normal"),
                   Plugin("resolveOptions", "context"),
                   Plugin("resolveOptions", "loader"), Hook("afterResolvers")>>)

\* one part of process after the other: an error ends process, and what
\* was applied before stays applied
AndThen(first, next) ==
    IF first.state = "thrown" THEN first
    ELSE [next EXCEPT !.applied = first.applied \o next.applied]

\* process(options, compiler), lines 93..534
ProcessAll(opts) ==
    AndThen(AndThen(AndThen(AndThen(
        ApplyTarget(opts.target),
        Applies(ModuleTypePlugins \o EntryOption \o ParserPlugins)),
        ApplyIdOptions(opts)),
        Applies(AfterPlugins)),
        ApplyResolvers(opts.inputFileSystem))

\* the configuration is read; inputFileSystem tells whether the compiler
\* has an input file system when afterPlugins has been called
Configure(moduleIds, chunkIds, target, inputFileSystem) ==
    /\ ~options.given
    /\ options' = [given |-> TRUE, moduleIds |-> moduleIds, chunkIds |-> chunkIds,
                   target |-> target, inputFileSystem |-> inputFileSystem]
    /\ UNCHANGED <<runtimeVars, requireVars, libVars, templateVars, nodeStuffVars, splitVars, idVars, applied, processed>>

\* new WebpackOptionsApply().process(options, compiler)
Process ==
    /\ options.given
    /\ processed.state = "pending"
    /\ \E done \in {ProcessAll(options)} :
          /\ applied' = done.applied
          /\ processed' = [state |-> done.state, message |-> done.message]
    /\ UNCHANGED <<runtimeVars, requireVars, libVars, templateVars, nodeStuffVars, splitVars, idVars, options>>

NextA ==
    \/ \E m \in IdOptionValues : \E c \in IdOptionValues :
       \E target \in TargetValues : \E inputFileSystem \in BOOLEAN :
          Configure(m, c, target, inputFileSystem)
    \/ Process

SpecA == Init /\ [][NextA]_vars

\* ------------------------------------------------------------------ JSON
\* JavaScript values: numbers and strings carry their text
JSValue(t, text, items) == [t |-> t, s |-> text, items |-> items]
JSUndefined == JSValue("undefined", "", <<>>)
JSTrue == JSValue("boolean", "true", <<>>)
JSNumber(text) == JSValue("number", text, <<>>)
JSString(text) == JSValue("string", text, <<>>)
JSArray(items) == JSValue("array", "", items)
\* an object: its own properties [key, val] in the order of their creation
JSObject(members) == JSValue("object", "", members)

\* obj[key]
Get(obj, key) ==
    IF \E i \in 1..Len(obj.items) : obj.items[i].key = key
    THEN obj.items[CHOOSE i \in 1..Len(obj.items) : obj.items[i].key = key].val
    ELSE JSUndefined

\* obj[key] = val
Set_KeepsFirst(obj, key, val) ==
    IF \E i \in 1..Len(obj.items) : obj.items[i].key = key
    THEN obj
    ELSE [obj EXCEPT !.items = Append(@, [key |-> key, val |-> val])]

Set(obj, key, val) ==
    IF \E i \in 1..Len(obj.items) : obj.items[i].key = key
    THEN [obj EXCEPT !.items[CHOOSE i \in 1..Len(obj.items) :
                                 obj.items[i].key = key].val = val]
    ELSE [obj EXCEPT !.items = Append(@, [key |-> key, val |-> val])]

Tok(k, text) == [k |-> k, s |-> text]

\* the white space JSON.stringify(value, null, 2) puts between tokens
Gap(format) == IF format THEN <<Tok("ws", "")>> ELSE <<>>

\* a property whose value is undefined is left out of the text
Serialized_UndefinedAsNull(v) == TRUE

Serialized(v) == v.t # "undefined"

RECURSIVE Stringify(_, _)
RECURSIVE StringifyItems(_, _, _, _)
RECURSIVE StringifyMembers(_, _, _, _)

\* JSON.stringify(v) and JSON.stringify(v, null, 2), as tokens
Stringify(v, format) ==
    CASE v.t = "number" -> <<Tok("number", v.s)>>
      [] v.t = "string" -> <<Tok("string", v.s)>>
      [] v.t = "boolean" -> <<Tok("literal", v.s)>>
      [] v.t \in {"null", "undefined"} -> <<Tok("literal", "null")>>
      [] v.t = "array" ->
            <<Tok("[", "")>> \o StringifyItems(v.items, 1, format, TRUE)
                \o <<Tok("]", "")>>
      [] v.t = "object" ->
            <<Tok("{", "")>> \o StringifyMembers(v.items, 1, format, TRUE)
                \o <<Tok("}", "")>>

StringifyItems(items, i, format, first) ==
    IF i > Len(items) THEN (IF first THEN <<>> ELSE Gap(format))
    ELSE (IF first THEN <<>> ELSE <<Tok(",", "")>>) \o Gap(format)
            \o Stringify(items[i], format)
            \o StringifyItems(items, i + 1, format, FALSE)

StringifyMembers(members, i, format, first) ==
    IF i > Len(members) THEN (IF first THEN <<>> ELSE Gap(format))
    ELSE IF ~Serialized(members[i].val)
    THEN StringifyMembers(members, i + 1, format, first)
    ELSE (IF first THEN <<>> ELSE <<Tok(",", "")>>) \o Gap(format)
            \o <<Tok("string", members[i].key), Tok(":", "")>> \o Gap(format)
            \o Stringify(members[i].val, format)
            \o StringifyMembers(members, i + 1, format, FALSE)

RECURSIVE ParseValue(_, _)
RECURSIVE ParseItems(_, _, _)
RECURSIVE ParseMembers(_, _, _)

\* the value that starts at token i, and the position after it
ParseValue(toks, i) ==
    CASE toks[i].k = "number" -> [v |-> JSNumber(toks[i].s), next |-> i + 1]
      [] toks[i].k = "string" -> [v |-> JSString(toks[i].s), next |-> i + 1]
      [] toks[i].k = "literal" ->
            [v |-> JSValue(IF toks[i].s = "null" THEN "null" ELSE "boolean",
                           IF toks[i].s = "null" THEN "" ELSE toks[i].s, <<>>),
             next |-> i + 1]
      [] toks[i].k = "[" -> ParseItems(toks, i + 1, <<>>)
      [] toks[i].k = "{" -> ParseMembers(toks, i + 1, JSObject(<<>>))

ParseItems(toks, i, items) ==
    IF toks[i].k = "]" THEN [v |-> JSArray(items), next |-> i + 1]
    ELSE IF toks[i].k = "," THEN ParseItems(toks, i + 1, items)
    ELSE LET item == ParseValue(toks, i)
         IN  ParseItems(toks, item.next, Append(items, item.v))

ParseMembers(toks, i, obj) ==
    IF toks[i].k = "}" THEN [v |-> obj, next |-> i + 1]
    ELSE IF toks[i].k = "," THEN ParseMembers(toks, i + 1, obj)
    ELSE LET val == ParseValue(toks, i + 2)
         IN  ParseMembers(toks, val.next, Set(obj, toks[i].s, val.v))

\* JSON.parse(text): white space between tokens means nothing
Parse(toks) == ParseValue(SelectSeq(toks, LAMBDA t : t.k # "ws"), 1).v

\* -------------------------------------------------------- LibManifestPlugin
\* The compilation has two chunks.  A module is in one of them, has the id of
\* its place in the order of ids, a libIdent ("" when libIdent returns null),
\* provided exports that are a list of names or true (not known), and may be
\* the target of an EntryDependency.
LibChunks == <<"main", "other">>
LibModuleIds == <<JSNumber("1"), JSString("b"), JSNumber("3"), JSString("d")>>
LibIdents == {"", "./a.js", "./b.js"}
LibExports == {JSTrue, JSArray(<<JSString("y"), JSString("x")>>)}
BuildMeta == JSObject(<<[key |-> "exportsType", val |-> JSString("namespace")]>>)

\* a module is built into the compilation
AddModule(chunk, ident, providedExports, entryDep) ==
    /\ ~libRun.emitted
    /\ Len(libModules) < MaxModules
    /\ libModules' = Append(libModules,
          [id |-> LibModuleIds[Len(libModules) + 1], chunk |-> chunk,
           ident |-> ident, providedExports |-> providedExports,
           entryDep |-> entryDep, buildMeta |-> BuildMeta])
    /\ UNCHANGED <<runtimeVars, requireVars, splitVars, idVars, applyVars,
                   templateVars, nodeStuffVars, libRun, outputFiles>>

\* lines 618..620
ExportsField(providedExports) ==
    IF providedExports.t = "array" THEN providedExports ELSE JSUndefined

\* the function mapped over the modules of the chunk (lines 598..627): the
\* item of a module, or nothing
Skipped(m, entryOnly) ==
    \/ entryOnly /\ ~m.entryDep
    \/ m.ident = ""

ManifestItem(m) ==
    [ident |-> m.ident,
     data |-> JSObject(<<[key |-> "id", val |-> m.id],
                         [key |-> "buildMeta", val |-> m.buildMeta],
                         [key |-> "exports", val |-> ExportsField(m.providedExports)]>>)]

\* the modules of chunk c, ordered by id
ChunkModules_AllModules(ms, c) == ms

ChunkModules(ms, c) == SelectSeq(ms, LAMBDA m : m.chunk = c)

\* .filter(Boolean).reduce(...) of lines 629..633
RECURSIVE ManifestContent(_, _, _, _)
ManifestContent(ms, i, entryOnly, obj) ==
    IF i > Len(ms) THEN obj
    ELSE IF Skipped(ms[i], entryOnly)
    THEN ManifestContent(ms, i + 1, entryOnly, obj)
    ELSE ManifestContent(ms, i + 1, entryOnly,
            Set(obj, ManifestItem(ms[i]).ident, ManifestItem(ms[i]).data))

\* lines 590..634; options.name is "[name]_lib" and options.type is not set
Manifest(ms, c, entryOnly) ==
    JSObject(<<[key |-> "name", val |-> JSString(LibChunks[c])],
               [key |-> "type", val |-> JSUndefined],
               [key |-> "content",
                val |-> ManifestContent(ChunkModules(ms, c), 1, entryOnly,
                                        JSObject(<<>>))]>>)

\* options.path is "manifest.[name].json"
TargetPath(c) == <<"manifest.", LibChunks[c], ".json">>

\* the files written for the chunks c, c + 1, ... (lines 575..647)
RECURSIVE EmitChunks(_, _, _)
EmitChunks(ms, run, c) ==
    IF c > Len(LibChunks) THEN <<>>
    ELSE IF ~run.onlyInitial[c] THEN EmitChunks(ms, run, c + 1)
    ELSE <<[chunk |-> c, path |-> TargetPath(c),
            content |-> Stringify(Manifest(ms, c, run.entryOnly), run.format)]>>
            \o EmitChunks(ms, run, c + 1)

\* the emit hook of the compiler calls the plugin, which was constructed with
\* the options entryOnly and format, on chunks that are only initial or not
Emit(entryOnly, format, onlyInitial) ==
    /\ ~libRun.emitted
    /\ libRun' = [emitted |-> TRUE, entryOnly |-> entryOnly, format |-> format,
                  onlyInitial |-> onlyInitial]
    /\ outputFiles' = EmitChunks(libModules, libRun', 1)
    /\ UNCHANGED <<runtimeVars, requireVars, splitVars, idVars, applyVars,
                   templateVars, nodeStuffVars, libModules>>

NextL ==
    \/ \E c \in 1..Len(LibChunks) : \E ident \in LibIdents :
       \E pe \in LibExports : \E entryDep \in BOOLEAN :
          AddModule(c, ident, pe, entryDep)
    \/ \E entryOnly \in BOOLEAN : \E format \in BOOLEAN :
       \E onlyInitial \in [1..Len(LibChunks) -> BOOLEAN] :
          Emit(entryOnly, format, onlyInitial)

SpecL == Init /\ [][NextL]_vars

\* ------------------------------ EvalSourceMapDevToolModuleTemplatePlugin
\* What ModuleFilenameHelpers.createFilename renders for a source: a name
\* that ends in a number of '*' characters (a path may hold that character).
Filenames == [name : {"a", "b"}, stars : {0, 1}]

\* a source is listed in the map of the module's source
AddSource(filename) ==
    /\ ~sourceMap.rendered
    /\ Len(sourceMap.sources) < MaxSources
    /\ sourceMap' = [sourceMap EXCEPT !.sources = Append(@, filename)]
    /\ UNCHANGED <<runtimeVars, requireVars, splitVars, idVars, applyVars, libVars,
                   nodeStuffVars>>

\* (filename, i, n) => { for (let j = 0; j < n; j++) filename += "*"; ... }
AppendStars(filename, i, n) == [filename EXCEPT !.stars = @ + n]

\* ModuleFilenameHelpers.replaceDuplicates(array, fn): an entry that occurs
\* more than once is replaced by fn(entry, i, n), n counting its earlier
\* occurrences from countFrom; an entry that occurs once is kept
replaceDuplicates(array, countFrom) ==
    [i \in 1..Len(array) |->
        IF \E j \in 1..Len(array) : j # i /\ array[j] = array[i]
        THEN AppendStars(array[i], i,
                 countFrom + Cardinality({j \in 1..(i - 1) : array[j] = array[i]}))
        ELSE array[i]]

\* the handler of moduleTemplate.hooks.module for a module with a source map
RenderModule(countFrom) ==
    /\ ~sourceMap.rendered
    /\ sourceMap.sources # <<>>
    /\ sourceMap' = [sources |-> replaceDuplicates(sourceMap.sources, countFrom),
                     rendered |-> TRUE]
    /\ UNCHANGED <<runtimeVars, requireVars, splitVars, idVars, applyVars, libVars,
                   nodeStuffVars>>

NextE ==
    \/ \E filename \in Filenames : AddSource(filename)
    \/ \E countFrom \in {0, 1} : RenderModule(countFrom)

SpecE == Init /\ [][NextE]_vars

\* ------------------------------------------------------- NodeStuffPlugin
\* the module types of normalModuleFactory.hooks.parser
ModuleTypes == {"javascript/auto", "javascript/dynamic", "javascript/esm"}
\* buildMeta.exportsType of a module: not set, or the type of a harmony module
ExportsTypes == {"", "namespace"}

\* RuntimeGlobals.harmonyModuleDecorator, RuntimeGlobals.nodeModuleDecorator
Decorators == <<"harmonyModuleDecorator", "nodeModuleDecorator">>

\* the handler is tapped for two module types, and returns at once when
\* parserOptions.node === false
HandlerTapped(m) ==
    /\ m.type \in {"javascript/auto", "javascript/dynamic"}
    /\ m.node

\* module.buildMeta && module.buildMeta.exportsType
isHarmony(m) == m.exportsType # ""

\* new ModuleDecoratorDependency(isHarmony ? ... : ...)
DecoratorOf_AlwaysNode(m) == "nodeModuleDecorator"

DecoratorOf(m) ==
    IF isHarmony(m) THEN "harmonyModuleDecorator" ELSE "nodeModuleDecorator"

\* the normal module factory creates the parser of a module
ParseModule(type, node, exportsType) ==
    /\ ~chunkRuntime.processed
    /\ Len(parsedModules) < MaxParsed
    /\ parsedModules' = Append(parsedModules,
          [type |-> type, node |-> node, exportsType |-> exportsType,
           uses |-> 0, dependencies |-> <<>>])
    /\ UNCHANGED <<runtimeVars, requireVars, splitVars, idVars, applyVars, libVars,
                   templateVars, chunkRuntime>>

\* the parser meets the free variable `module` in module i: the tap of
\* parser.hooks.expression.for("module"), where the handler installed it
ModuleExpression(i) ==
    /\ ~chunkRuntime.processed
    /\ parsedModules[i].uses < MaxUses
    /\ parsedModules' = [parsedModules EXCEPT
          ![i].uses = @ + 1,
          ![i].dependencies =
              IF HandlerTapped(parsedModules[i])
              THEN Append(@, DecoratorOf(parsedModules[i]))
              ELSE @]
    /\ UNCHANGED <<runtimeVars, requireVars, splitVars, idVars, applyVars, libVars,
                   templateVars, chunkRuntime>>

\* the taps of runtimeRequirementInModule: what a requirement adds to the set
RequirementInModule(requirement) ==
    IF requirement \in {"harmonyModuleDecorator", "nodeModuleDecorator"}
    THEN {"module", "require"}
    ELSE {}

\* the taps of runtimeRequirementInTree: the runtime module added for one
RequirementInTree(requirement) ==
    CASE requirement = "harmonyModuleDecorator" -> "harmony module decorator"
      [] requirement = "nodeModuleDecorator" -> "node module decorator"

\* the runtime requirements of a module: those of its dependencies, and what
\* the taps add for each of them
ModuleRequirements(m) ==
    LET own == {m.dependencies[k] : k \in 1..Len(m.dependencies)}
    IN  own \cup UNION {RequirementInModule(r) : r \in own}

\* the compilation computes the requirements of the chunk's tree and calls the
\* tap of each requirement in it once
ProcessRuntimeRequirements ==
    /\ ~chunkRuntime.processed
    /\ parsedModules # <<>>
    /\ \E tree \in {UNION {ModuleRequirements(parsedModules[i]) :
                              i \in 1..Len(parsedModules)}} :
          chunkRuntime' =
              [processed |-> TRUE, requirements |-> tree,
               runtimeModules |->
                  [k \in 1..Len(SelectSeq(Decorators, LAMBDA d : d \in tree)) |->
                      RequirementInTree(SelectSeq(Decorators, LAMBDA d : d \in tree)[k])]]
    /\ UNCHANGED <<runtimeVars, requireVars, splitVars, idVars, applyVars, libVars,
                   templateVars, parsedModules>>

NextN ==
    \/ \E type \in ModuleTypes : \E node \in BOOLEAN : \E exportsType \in ExportsTypes :
          ParseModule(type, node, exportsType)
    \/ \E i \in 1..Len(parsedModules) : ModuleExpression(i)
    \/ ProcessRuntimeRequirements

SpecN == Init /\ [][NextN]_vars

\* ------------------------------------------------------------ properties
RequestIds == 1..Len(requests)

LoadsOf(chunkId) == {n \in LoadIds : loads[n].chunkId = chunkId}

\* C1: requests for a chunk that is unrequested or loading start one script
\* fetch: a request that finds the chunk loading gets the promise of the
\* entry and starts nothing, a request that finds it unrequested starts the
\* fetch the following ones share, and every script element was started by
\* exactly one request, made while the chunk was unrequested.
C1_OneFetchPerChunk ==
    /\ \A i \in RequestIds :
         LET r == requests[i]
         IN  /\ Truthy(r.before) => r.promises = <<r.before>>
             /\ r.before = Undefined =>
                  /\ Len(r.promises) = 1
                  /\ r.promises[1] \in LoadIds
                  /\ loads[r.promises[1]].chunkId = r.chunkId
                  /\ \A j \in 1..(i - 1) : requests[j].promises # r.promises
    /\ \A n \in LoadIds :
         Cardinality({i \in RequestIds :
             requests[i].before = Undefined /\ requests[i].promises = <<n>>}) = 1
    /\ \A c \in ChunkIds :
         Truthy(installedChunks[c]) =>
            /\ installedChunks[c] \in LoadsOf(c)
            /\ \E i \in RequestIds : requests[i].chunkId = c /\ requests[i].before = Undefined

\* two callers asked for the same chunk and hold the same promise
C1_Witness ==
    \E i, j \in RequestIds :
        /\ i < j
        /\ requests[i].chunkId = requests[j].chunkId
        /\ requests[i].before = Undefined
        /\ Truthy(requests[j].before)
        /\ requests[i].promises = requests[j].promises
        /\ Cardinality(LoadsOf(requests[i].chunkId)) = 1

\* C2: after a load of a chunk failed, the entry of the chunk is no longer
\* the triple of the failed attempt (it is back to unrequested, or a later
\* request replaced it), so the failed attempt serves no further request.
C2_FailedLoadResetsEntry ==
    \A n \in LoadIds :
        loads[n].promise = "rejected" => installedChunks[loads[n].chunkId] # n

\* a step in which the script of element n runs or one of its events arrives
ScriptStep(n) == loads'[n].script # loads[n].script

\* a step in which the load or error event of element n is dispatched
EventStep(n) ==
    /\ ScriptStep(n)
    /\ loads'[n].script \in {"done", "failed"}

\* C3 as stated: once the timer of an attempt has fired, neither the run of
\* its script (the chunk file calling webpackJsonpCallback) nor its load or
\* error event changes the entry of the chunk or the processed of the attempt.
C3_LateEventsIgnored ==
    [][\A n \in LoadIds :
         (loads[n].timer = "fired" /\ ScriptStep(n)) =>
            /\ installedChunks'[loads[n].chunkId] = installedChunks[loads[n].chunkId]
            /\ loads'[n].promise = loads[n].promise
            /\ loads'[n].error = loads[n].error]_vars

\* C3, amended: once the timer of an attempt has fired, its load or error
\* event changes no entry of installedChunks and reports nothing, and neither
\* the events nor the run of its script change the processed the callers of
\* the attempt got; the run of the script is not ignored: it can only set
\* entries to 0 (loaded).
C3_LateEventsAmended ==
    [][\A n \in LoadIds :
         (loads[n].timer = "fired" /\ ScriptStep(n)) =>
            /\ loads'[n].promise = loads[n].promise
            /\ loads'[n].error = loads[n].error
            /\ rejectCalls' = rejectCalls
            /\ EventStep(n) => installedChunks' = installedChunks
            /\ \A c \in ChunkIds :
                 installedChunks'[c] \in {installedChunks[c], Loaded}]_vars

\* the script of an attempt that timed out has run and registered the chunk
C3_Witness ==
    \E n \in LoadIds :
        /\ loads[n].timer = "fired"
        /\ loads[n].promise = "rejected"
        /\ loads[n].script = "done"
        /\ installedChunks[loads[n].chunkId] = Loaded

\* a step that is a call of f.j for chunk c
RequestStep(c) ==
    /\ Len(requests') = Len(requests) + 1
    /\ requests'[Len(requests')].chunkId = c

\* C4: an entry that is 0 stays 0 in every step, and a request for such a
\* chunk creates no script element and pushes no promise.
C4_LoadedIsTerminal ==
    [][\A c \in ChunkIds :
         installedChunks[c] = Loaded =>
            /\ installedChunks'[c] = Loaded
            /\ RequestStep(c) =>
                 /\ loads' = loads
                 /\ requests'[Len(requests')].promises = <<>>]_vars

\* chunk 396 was loaded by its script, its load event arrived, and it was
\* requested again
C4_Witness ==
    /\ installedChunks[WrapperChunk] = Loaded
    /\ \E n \in LoadsOf(WrapperChunk) : loads[n].script = "done"
    /\ \E i \in RequestIds :
         /\ requests[i].chunkId = WrapperChunk
         /\ requests[i].before = Loaded
         /\ requests[i].promises = <<>>

\* a step in which the timer of element n fires
TimerStep(n) == loads[n].timer = "active" /\ loads'[n].timer = "fired"

\* C5: when the timer of an attempt fires while its chunk is still loading
\* (not registered, no load or error event handled), the pending promise is
\* rejected with an error of type 'timeout'.
C5_TimeoutRejects ==
    [][\A n \in LoadIds :
         (TimerStep(n) /\ Truthy(installedChunks[loads[n].chunkId])) =>
            LET p == installedChunks[loads[n].chunkId]
            IN  /\ loads[p].promise = "pending"
                /\ loads'[p].promise = "rejected"
                /\ loads'[p].error.type = "timeout"
                /\ loads'[p].error.request = loads[n].src]_vars

\* an attempt ended by its timer
C5_Witness ==
    \E n \in LoadIds :
        /\ loads[n].timer = "fired"
        /\ loads[n].script = "fetching"
        /\ loads[n].promise = "rejected"
        /\ loads[n].error.type = "timeout"

\* C6: every report of a failed load goes to a pending promise, the one all
\* the callers that found the chunk loading hold, at most once per attempt;
\* the error's type is 'missing' for a load event and the event's type
\* otherwise, its message names the chunk id, its request is the script URL.
C6_FailureReport ==
    /\ \A k \in 1..Len(rejectCalls) :
         LET rc == rejectCalls[k]
             c == loads[rc.by].chunkId
         IN  /\ rc.pending
             /\ rc.load = rc.by
             /\ loads[rc.load].promise = "rejected"
             /\ loads[rc.load].error = rc.error
             /\ rc.event \in {"load", "error", "timeout"}
             /\ rc.event = "load" =>
                  /\ rc.error.type = "missing"
                  /\ loads[rc.by].script = "done"
             /\ rc.event = "error" =>
                  /\ rc.error.type = "error"
                  /\ loads[rc.by].script = "failed"
             /\ rc.event = "timeout" =>
                  /\ rc.error.type = "timeout"
                  /\ loads[rc.by].timer = "fired"
             /\ rc.error.request = ScriptUrl(c)
             /\ rc.error.message[2] = c
             /\ rc.error.message[4] = rc.error.type
             /\ \A j \in 1..Len(rejectCalls) : rejectCalls[j].load = rc.load => j = k
             /\ \A i \in RequestIds :
                  requests[i].before = rc.load =>
                     /\ requests[i].chunkId = c
                     /\ requests[i].promises = <<rc.load>>
    /\ \A n \in LoadIds :
         loads[n].promise = "rejected" =>
            \E k \in 1..Len(rejectCalls) : rejectCalls[k].load = n

\* two callers share a load that ended with a load event and no registration
C6_Witness ==
    \E k \in 1..Len(rejectCalls) :
        /\ rejectCalls[k].error.type = "missing"
        /\ Cardinality({i \in RequestIds :
              requests[i].promises = <<rejectCalls[k].load>>}) >= 2

\* C7: whenever webpackJsonpCallback invokes a resolve function, the modules
\* of the chunk file are in __webpack_require__.m, every chunk id of the file
\* is marked loaded and the file's runtime injector, if any, has run; so the
\* wrapper, once resumed, has required its inner module.
C7_ResolveAfterInstall ==
    /\ \A k \in 1..Len(resolveCalls) :
         LET rc == resolveCalls[k]
         IN  /\ rc.file.moreModules \subseteq rc.modules
             /\ \A i \in 1..Len(rc.file.chunkIds) : rc.ic[rc.file.chunkIds[i]] = Loaded
             /\ rc.file.runtime => rc.file.chunkIds \in rc.injected
    /\ wrapper.settled = "fulfilled" =>
         /\ data = FactoryExports(WrapperInner)
         /\ installedModules[WrapperInner].l

\* a pending caller was resolved by a chunk file that carries a runtime
C7_Witness ==
    \E k \in 1..Len(resolveCalls) :
        /\ resolveCalls[k].file.runtime
        /\ loads[resolveCalls[k].load].promise = "resolved"
        /\ wrapper.settled = "fulfilled"

\* the chunk ids chunk files have pushed so far
PushedIds ==
    UNION {{jsonpArray[k].chunkIds[i] : i \in 1..Len(jsonpArray[k].chunkIds)} :
              k \in 1..Len(jsonpArray)}

\* C8: every chunk id a chunk file pushed is marked loaded, also one that no
\* caller had requested; a request that finds it loaded pushes no promise, and
\* no script element is ever created for a chunk pushed before any request.
C8_PushMarksLoaded ==
    /\ \A c \in PushedIds : installedChunks[c] = Loaded
    /\ \A i \in RequestIds : requests[i].before = Loaded => requests[i].promises = <<>>
    /\ \A c \in PushedIds :
         (\A i \in RequestIds : requests[i].chunkId = c => requests[i].before = Loaded)
         => LoadsOf(c) = {}

\* chunk 397 was pushed without having been requested, and requested later
C8_Witness ==
    /\ 397 \in PushedIds
    /\ LoadsOf(397) = {}
    /\ \E i \in RequestIds : requests[i].chunkId = 397 /\ requests[i].before = Loaded

RegisteredIds == 1..Len(registered)

\* the invocation callback k is owed
OwedCall(k) ==
    [cb |-> registered[k].cb, arg |-> FactoryExports(WrapperInner),
     frame |-> IF registered[k].buffered THEN 0 ELSE registered[k].cb]

\* the buffered callbacks were invoked, in registration order, with the
\* exports of the inner module
BufferedDrained ==
    \A k \in RegisteredIds :
        registered[k].buffered => (k <= Len(calls) /\ calls[k] = OwedCall(k))

CallsOf(k) == {j \in 1..Len(calls) : calls[j].cb = registered[k].cb}

\* C10 as stated: a callback registered after the awaited chunk has loaded
\* is invoked with the exports of the inner module.  Stated for the runs in
\* which only the script elements of the runtime push chunk files.
C10_CalledWhenLoaded ==
    \A k \in RegisteredIds :
        (pushes = 0 /\ registered[k].chunk = Loaded) =>
            \E j \in CallsOf(k) : calls[j] = OwedCall(k)

\* C10, amended: a callback registered after the wrapper's own request for
\* the chunk was fulfilled is not buffered but invoked at once, exactly once,
\* with the cached exports of the inner module; a callback registered while
\* the chunk is marked loaded but that request was rejected stays buffered
\* and is not invoked.
C10_CalledWhenFulfilled ==
    \A k \in RegisteredIds :
        /\ registered[k].settled = "fulfilled" <=> ~registered[k].buffered
        /\ ~registered[k].buffered =>
             /\ registered[k].chunk = Loaded
             /\ Cardinality(CallsOf(k)) = 1
             /\ \A j \in CallsOf(k) : calls[j] = OwedCall(k) /\ calls[j].arg = data
             /\ \A i \in 1..Len(cbs.items) : cbs.items[i] # registered[k].cb
        /\ (registered[k].chunk = Loaded /\ registered[k].settled = "rejected") =>
             /\ CallsOf(k) = {}
             /\ \E i \in 1..Len(cbs.items) : cbs.items[i] = registered[k].cb

\* a callback was registered after the chunk had loaded, and invoked
C10_Witness ==
    \E k \in RegisteredIds :
        /\ ~registered[k].buffered
        /\ registered[k].chunk = Loaded
        /\ \E j \in CallsOf(k) : calls[j] = OwedCall(k)

BufferedByModules ==
    LET sel == SelectSeq(registered, LAMBDA r : r.buffered /\ r.by = 0)
    IN  [i \in 1..Len(sel) |-> sel[i].cb]

\* the callbacks the loop of the promise reaction invoked, in order
DrainedCalls ==
    LET sel == SelectSeq(calls, LAMBDA c : c.frame = 0)
    IN  [i \in 1..Len(sel) |-> sel[i].cb]

ResolveCallsOf(n) == {j \in 1..Len(resolveCalls) : resolveCalls[j].load = n}

\* C12: a callback that registers a further callback or requests a chunk
\* while a list is drained does not disturb the drain.  The list the wrapper
\* drains is, when the loop has ended, still the list of the callbacks
\* buffered before; the loop invoked exactly these, in order, each once; a
\* callback registered meanwhile is not put on that list but invoked at once,
\* so every registered callback has been invoked exactly once; nothing is
\* invoked before the drain.  Every resolve webpackJsonpCallback collected for
\* a pushed chunk is invoked exactly once, and no other.
C12_DrainUndisturbed ==
    /\ wrapper.settled = "fulfilled" =>
          /\ wrapper.drained = BufferedByModules
          /\ DrainedCalls = wrapper.drained
          /\ \A k \in RegisteredIds : Cardinality(CallsOf(k)) = 1
          /\ cbs.null /\ cbs.items = <<>>
    /\ wrapper.settled # "fulfilled" => calls = <<>>
    /\ \A n \in LoadIds :
          Cardinality(ResolveCallsOf(n)) =
              IF loads[n].chunkId \in PushedIds THEN 1 ELSE 0

\* during the drain a callback registered a further callback, which was
\* invoked at once and requested a chunk, which started a load
C12_Witness ==
    /\ wrapper.settled = "fulfilled"
    /\ Len(wrapper.drained) >= 2
    /\ \E k \in RegisteredIds :
          /\ registered[k].by # 0
          /\ registered[registered[k].by].buffered
          /\ CallsOf(k) # {}
    /\ \E i \in RequestIds :
          requests[i].who = "callback" /\ requests[i].promises # <<>>

\* a step in which onScriptComplete of script element n runs: it clears the
\* handlers of the element
CompleteStep(n) == loads[n].handlers /\ ~loads'[n].handlers

\* C13: a step in which the load of chunk c ends in onScriptComplete (error
\* event, load event without registration, or timeout) leaves the entry of
\* every other chunk as it was, in particular that of every loaded chunk,
\* and leaves the registered modules, the module cache and every other script
\* element's promise unchanged.
C13_FailureIsLocal ==
    [][\A n \in LoadIds :
          CompleteStep(n) =>
             /\ \A d \in ChunkIds \ {loads[n].chunkId} :
                   installedChunks'[d] = installedChunks[d]
             /\ \A d \in ChunkIds :
                   installedChunks[d] = Loaded => installedChunks'[d] = Loaded
             /\ modules' = modules
             /\ installedModules' = installedModules
             /\ \A m \in LoadIds \ {n} : loads'[m] = loads[m]]_vars

\* the load of one chunk failed while another chunk, requested at run time,
\* is loaded with its modules registered
C13_Witness ==
    \E j \in 1..Len(rejectCalls) : \E d \in ChunkIds \ {404} :
        /\ loads[rejectCalls[j].load].chunkId # d
        /\ installedChunks[d] = Loaded
        /\ LoadsOf(d) # {}
        /\ modules # EntryModules
        /\ installedChunks[loads[rejectCalls[j].load].chunkId] # Loaded

\* the modules whose factory is executing
Executing == {stack[i].m : i \in 1..Len(stack)}

\* the walk has not finished a factory it never started, and conversely
C14_Safe ==
    /\ \A m \in GraphModules :
          /\ runs[m] <= 1
          /\ runs[m] = 1 <=> installedModules[m].cached
          /\ m \in Executing =>
                /\ installedModules[m].cached
                /\ ~installedModules[m].l
                /\ installedModules[m].exports = "{}"
          /\ installedModules[m].l => m \notin Executing
    /\ \A i \in 1..Len(stack) : \A j \in 1..Len(stack) :
          stack[i].m = stack[j].m => i = j
    /\ \A i \in 1..Len(returns) :
          /\ returns[i].executing =>
                /\ returns[i].hit
                /\ ~returns[i].l
                /\ returns[i].exports = "{}"
          /\ ~returns[i].executing =>
                /\ returns[i].l
                /\ returns[i].exports = FactoryExports(returns[i].of)

\* C14: circular synchronous requires terminate.  A module is in the cache
\* from before its factory runs; requiring a module whose factory is
\* executing returns its current exports (the object created with the record,
\* not yet flagged loaded) and runs no factory; every factory executes at
\* most once over any require graph, cyclic ones included; and the call
\* __webpack_require__(0) of the bootstrap returns, with module 0 loaded.
C14_CyclesTerminate ==
    /\ []C14_Safe
    /\ started ~> (stack = <<>> /\ installedModules[0].l)

\* a cycle through all three modules was required and the bootstrap's call
\* has returned: the require that closed the cycle got the unfinished exports
C14_Witness ==
    /\ started
    /\ stack = <<>>
    /\ \A m \in GraphModules : runs[m] = 1 /\ installedModules[m].l
    /\ \E i \in 1..Len(returns) :
          /\ returns[i].executing
          /\ returns[i].of = 0
          /\ returns[i].by = 2
    /\ \E i \in 1..Len(returns) : returns[i].executing /\ returns[i].of = returns[i].by

\* the chunks of a finished split that hold exactly the modules ms
ChunksOf(ms) == {i \in 1..Len(chunks) : chunks[i].modules = ms}

\* the split made one initial chunk {A, B} and one async chunk {C}, child of
\* the initial chunk
TwoChunks(a, b, c) ==
    /\ Len(chunks) = 2
    /\ \E i \in ChunksOf({a, b}) : \E j \in ChunksOf({c}) :
          /\ chunks[i].key.initial /\ chunks[i].parents = {}
          /\ ~chunks[j].key.initial /\ chunks[j].parents = {chunks[i].key}

\* the chunks of the split are those the build of the example reports
MatchesInfo ==
    \E id \in [1..Len(chunks) -> {c.id : c \in InfoChunks}] :
        /\ \A i \in 1..Len(chunks) : \A j \in 1..Len(chunks) : id[i] = id[j] => i = j
        /\ {[id |-> id[i], modules |-> chunks[i].modules,
             parents |-> {id[IndexOf(chunks, k)] : k \in chunks[i].parents},
             entry |-> chunks[i].key.initial] : i \in 1..Len(chunks)} = InfoChunks

\* C15: when the entry A requires B synchronously and C asynchronously, the
\* split ends with exactly two chunks, the initial chunk {A, B} and the async
\* chunk {C}, the initial chunk being the one parent of the async chunk; the
\* graph of the example (the async edge leaves the wrapper B) splits the same
\* way, into the chunks the build reports: 404 = {0, 1}, 396 = {2}, 404 parent
\* of 396.
C15_TwoChunks ==
    phase = "done" =>
        /\ deps = {[from |-> 0, to |-> 1, kind |-> "sync"],
                   [from |-> 0, to |-> 2, kind |-> "async"]} => TwoChunks(0, 1, 2)
        /\ deps = {[from |-> 0, to |-> 2, kind |-> "sync"],
                   [from |-> 0, to |-> 1, kind |-> "async"]} => TwoChunks(0, 2, 1)
        /\ deps = ExampleDeps => TwoChunks(0, 1, 2) /\ MatchesInfo

\* the split of a graph in which the entry requires module 1 synchronously
\* and module 2 asynchronously is finished
C15_Witness ==
    /\ phase = "done"
    /\ [from |-> 0, to |-> 1, kind |-> "sync"] \in deps
    /\ [from |-> 0, to |-> 2, kind |-> "async"] \in deps
    /\ Cardinality(deps) = 2
    /\ ChunksOf({0, 1}) # {}
    /\ ChunksOf({2}) # {}

Injective(ids) ==
    \A i \in 1..Len(ids) : \A j \in 1..Len(ids) : ids[i] = ids[j] => i = j

AppliedAmong(names) == {i \in 1..Len(applied) : applied[i].name \in names}

\* the strategy plugin each recognised value stands for
ModuleIdPluginOf(value) ==
    CASE value = "natural" -> "NaturalModuleIdsPlugin"
      [] value = "named" -> "NamedModuleIdsPlugin"
      [] value = "hashed" -> "HashedModuleIdsPlugin"
      [] value = "deterministic" -> "DeterministicModuleIdsPlugin"
      [] value = "size" -> "OccurrenceModuleIdsPlugin"

ChunkIdPluginOf(value) ==
    CASE value = "natural" -> "NaturalChunkIdsPlugin"
      [] value = "named" -> "NamedChunkIdsPlugin"
      [] value = "deterministic" -> "DeterministicChunkIdsPlugin"
      [] value \in {"size", "total-size"} -> "OccurrenceChunkIdsPlugin"

\* process got past the target: options.target is a string it knows, or a
\* function
TargetAccepted ==
    \/ options.target.type = "function"
    \/ options.target.type = "string" /\ options.target.value \in SupportedTargets

\* process threw the error of an id switch
IdOptionRejected ==
    processed.state = "thrown" /\ processed.message[1] = "webpack bug: "

\* C17: once process has run and got past the target, for a recognised
\* non-empty value of optimization.moduleIds exactly one module id plugin is
\* applied, the one of that value, and for a recognised non-empty value of
\* optimization.chunkIds (when the moduleIds switch did not throw before)
\* exactly one chunk id plugin, the one of that value; for an unrecognised
\* non-empty value of either option process throws "webpack bug: ... is not
\* implemented" and applies no plugin for that option; for an empty value it
\* applies none and does not throw.
C17_OneStrategyPlugin ==
    (processed.state # "pending" /\ TargetAccepted) =>
        /\ options.moduleIds \in ModuleIdStrategies =>
              /\ Cardinality(AppliedAmong(ModuleIdPlugins)) = 1
              /\ \A i \in AppliedAmong(ModuleIdPlugins) :
                    applied[i].name = ModuleIdPluginOf(options.moduleIds)
        /\ options.moduleIds \notin ModuleIdStrategies =>
              AppliedAmong(ModuleIdPlugins) = {}
        /\ options.moduleIds \notin ModuleIdStrategies \cup {""} =>
              /\ IdOptionRejected
              /\ processed.message[2] = "moduleIds"
              /\ processed.message[4] = options.moduleIds
              /\ AppliedAmong(ChunkIdPlugins) = {}
        /\ options.moduleIds \in ModuleIdStrategies \cup {""} =>
              /\ options.chunkIds \in ChunkIdStrategies =>
                    /\ ~IdOptionRejected
                    /\ Cardinality(AppliedAmong(ChunkIdPlugins)) = 1
                    /\ \A i \in AppliedAmong(ChunkIdPlugins) :
                          applied[i].name = ChunkIdPluginOf(options.chunkIds)
              /\ options.chunkIds \notin ChunkIdStrategies =>
                    AppliedAmong(ChunkIdPlugins) = {}
              /\ options.chunkIds \notin ChunkIdStrategies \cup {""} =>
                    /\ IdOptionRejected
                    /\ processed.message[2] = "chunkIds"
                    /\ processed.message[4] = options.chunkIds
              /\ options.chunkIds = "" => ~IdOptionRejected

\* process ran with moduleIds "hashed" and chunkIds "total-size": it applied
\* the deprecation warning, one module id plugin and one chunk id plugin
C17_Witness ==
    /\ processed.state = "returned"
    /\ options.moduleIds = "hashed"
    /\ options.chunkIds = "total-size"
    /\ Cardinality(AppliedAmong({"WarnDeprecatedOptionPlugin"})) = 1
    /\ Cardinality(AppliedAmong(ModuleIdPlugins)) = 1
    /\ \E i \in AppliedAmong(ChunkIdPlugins) : applied[i].arg = "prioritiseInitial: false"

FileIds == 1..Len(outputFiles)

\* the entries of the manifest written as file f, read back from the file
WrittenContent(f) == Get(Parse(outputFiles[f].content), "content")

KeysOf(obj) == {obj.items[i].key : i \in 1..Len(obj.items)}

WrittenIdents(f) == KeysOf(WrittenContent(f))

ModuleIndexes == 1..Len(libModules)

\* C18: a manifest is written for a chunk only if the chunk is only initial
\* (and then one is); an identity has an entry in the manifest of a chunk only
\* if a module of that chunk has it as its libIdent, and with entryOnly only
\* if that module is the target of an EntryDependency (and every such module
\* has an entry).
C18_ManifestOnlyForInitial ==
    libRun.emitted =>
        /\ \A f \in FileIds : \A idents \in {WrittenIdents(f)} :
              /\ libRun.onlyInitial[outputFiles[f].chunk]
              /\ outputFiles[f].path = TargetPath(outputFiles[f].chunk)
              /\ \A g \in FileIds : outputFiles[g].chunk = outputFiles[f].chunk => g = f
              /\ \A ident \in idents :
                    \E i \in ModuleIndexes :
                       /\ libModules[i].chunk = outputFiles[f].chunk
                       /\ libModules[i].ident = ident
                       /\ ident # ""
                       /\ libRun.entryOnly => libModules[i].entryDep
              /\ \A i \in ModuleIndexes :
                    (/\ libModules[i].chunk = outputFiles[f].chunk
                     /\ libModules[i].ident # ""
                     /\ libRun.entryOnly => libModules[i].entryDep)
                       => libModules[i].ident \in idents
        /\ \A c \in 1..Len(LibChunks) :
              libRun.onlyInitial[c] => \E f \in FileIds : outputFiles[f].chunk = c

\* with entryOnly, one chunk only initial and the other not: the one manifest
\* written has the entry module of the first chunk and leaves out its other
\* module; the module of the other chunk appears nowhere
C18_Witness ==
    /\ libRun.emitted /\ libRun.entryOnly
    /\ libRun.onlyInitial[1] /\ ~libRun.onlyInitial[2]
    /\ Len(outputFiles) = 1
    /\ Len(libModules) = 2
    /\ libModules[1].chunk = 1 /\ libModules[1].entryDep
    /\ libModules[2].ident = "./b.js" /\ ~libModules[2].entryDep
    /\ WrittenIdents(1) = {"./a.js"}

\* the manifest object the plugin serialises for file f
BuiltContent(f) ==
    Get(Manifest(libModules, outputFiles[f].chunk, libRun.entryOnly), "content")

\* C19: reading a written manifest back with JSON.parse gives, for every
\* identity the plugin included, the id and the exports the plugin put into
\* the manifest object (an id keeps being a number or a string; exports that
\* were undefined read as undefined again), and no other identity.
C19_RoundTrip ==
    \A f \in FileIds :
    \A content \in {BuiltContent(f)} : \A written \in {WrittenContent(f)} :
        /\ KeysOf(written) = KeysOf(content)
        /\ \A i \in 1..Len(content.items) :
              LET built == content.items[i].val
                  back == Get(written, content.items[i].key)
              IN  /\ Get(back, "id") = Get(built, "id")
                  /\ Get(back, "exports") = Get(built, "exports")
                  /\ Get(built, "id") \in
                        {libModules[m].id : m \in ModuleIndexes}

\* a formatted manifest with a numeric and a string id, one entry with a list
\* of exports and one with exports not known, was written and read back
C19_Witness ==
    /\ libRun.emitted /\ libRun.format
    /\ \E f \in FileIds :
          /\ Len(WrittenContent(f).items) = 2
          /\ Get(WrittenContent(f).items[1].val, "id") = JSNumber("1")
          /\ Get(WrittenContent(f).items[2].val, "id") = JSString("b")
          /\ Get(WrittenContent(f).items[1].val, "exports").t = "array"
          /\ Get(WrittenContent(f).items[2].val, "exports") = JSUndefined

HasKey(obj, key) == \E i \in 1..Len(obj.items) : obj.items[i].key = key

\* C20 as stated: in a written manifest every entry has an exports field,
\* which is the ordered list of the provided export names of a module with
\* that identity, or else an explicit marker that the exports are not known.
C20_ExportsAlwaysPresent ==
    \A f \in FileIds : \A i \in 1..Len(WrittenContent(f).items) :
        LET entry == WrittenContent(f).items[i]
        IN  /\ HasKey(entry.val, "exports")
            /\ \/ Get(entry.val, "exports").t \in {"boolean", "null", "string"}
               \/ \E m \in ModuleIndexes :
                     /\ libModules[m].ident = entry.key
                     /\ libModules[m].providedExports = Get(entry.val, "exports")
\* C21: once the eval source map of a module is rendered, no two entries of
\* its sources are equal.
C21_SourcesDistinct ==
    sourceMap.rendered =>
        \A i, j \in 1..Len(sourceMap.sources) :
            i # j => sourceMap.sources[i] # sourceMap.sources[j]

\* the decorator the build-metadata flag of module m selects
FlagDecorator(m) ==
    IF m.exportsType = "namespace" THEN "harmonyModuleDecorator"
    ELSE "nodeModuleDecorator"

\* module m got one dependency per use of `module`, each of its flag's variant
OnePerUse(m) ==
    /\ Len(m.dependencies) = m.uses
    /\ \A k \in 1..Len(m.dependencies) : m.dependencies[k] = FlagDecorator(m)

\* the runtime modules of the chunk are those of the decorators its modules
\* require, one of each
RuntimeModulesMatch ==
    chunkRuntime.processed =>
        \A d \in {"harmonyModuleDecorator", "nodeModuleDecorator"} :
            LET emitted == {k \in 1..Len(chunkRuntime.runtimeModules) :
                              chunkRuntime.runtimeModules[k] =
                                  IF d = "harmonyModuleDecorator"
                                  THEN "harmony module decorator"
                                  ELSE "node module decorator"}
                required == \E i \in 1..Len(parsedModules) :
                              \E k \in 1..Len(parsedModules[i].dependencies) :
                                 parsedModules[i].dependencies[k] = d
            IN  /\ d \in chunkRuntime.requirements <=> required
                /\ Cardinality(emitted) = IF required THEN 1 ELSE 0

NoneThrows == \A k \in RegisteredIds : registered[k].kind # "throw"

\* C23: whatever the order of registrations, of the load and of the
\* reaction, no registered callback is invoked more than once; when the
\* wrapper's request for the chunk was fulfilled and no callback throws,
\* every registered callback has been invoked exactly once.
C23_InvokedOnce ==
    /\ \A k \in RegisteredIds : Cardinality(CallsOf(k)) <= 1
    /\ (wrapper.settled = "fulfilled" /\ NoneThrows) =>
          \A k \in RegisteredIds : Cardinality(CallsOf(k)) = 1

\* one callback was registered before the load completed and one after it,
\* none throws, and each was invoked once
C23_Witness ==
    /\ wrapper.settled = "fulfilled"
    /\ NoneThrows
    /\ \E k, n \in RegisteredIds :
          /\ registered[k].buffered /\ ~registered[n].buffered
          /\ Cardinality(CallsOf(k)) = 1 /\ Cardinality(CallsOf(n)) = 1

\* the promise of the wrapper's request for its chunk was rejected
LoadFailed == PromiseAll(wrapper.promises) = "rejected"

ReturnIds == 1..Len(returns)

\* C25: a module whose factory an exception left keeps its record in
\* installedModules, with l = false; its factory is not run again; every
\* later __webpack_require__ of its id returns the exports of that record;
\* and l is true only for a module whose factory has returned.
C25_ThrownStaysCached ==
    /\ \A i \in ReturnIds :
          returns[i].threw =>
              /\ installedModules[returns[i].of].cached
              /\ ~installedModules[returns[i].of].l
              /\ runs[returns[i].of] = 1
              /\ \A j \in ReturnIds :
                    (j > i /\ returns[j].of = returns[i].of) =>
                        /\ returns[j].hit
                        /\ ~returns[j].threw
                        /\ ~returns[j].l
                        /\ returns[j].exports = installedModules[returns[i].of].exports
    /\ \A m \in GraphModules :
          installedModules[m].l <=>
              \E i \in ReturnIds :
                  returns[i].of = m /\ ~returns[i].hit /\ ~returns[i].threw

\* the factory of a module threw after it had assigned its exports, the
\* module was required again, by a factory that caught the exception, and
\* the exports of the unfinished record were returned; another module's
\* factory has returned
C25_Witness ==
    /\ \E i, j \in ReturnIds :
          /\ returns[i].threw
          /\ j > i
          /\ returns[j].of = returns[i].of
          /\ returns[j].hit
          /\ returns[j].by # -1
          /\ returns[j].exports = FactoryExports(returns[i].of)
          /\ ~installedModules[returns[i].of].l
    /\ \E m \in GraphModules : installedModules[m].l

\* the chunk loading template plugin a target string stands for
TemplateOf(value) ==
    CASE value \in {"web", "node-webkit", "electron-renderer"} -> "JsonpTemplatePlugin"
      [] value = "webworker" -> "WebWorkerTemplatePlugin"
      [] value \in {"node", "async-node", "electron-main"} -> "NodeTemplatePlugin"

TemplatePlugins ==
    {"JsonpTemplatePlugin", "WebWorkerTemplatePlugin", "NodeTemplatePlugin"}

\* C26: once process has run, for target false and for a target string
\* other than the seven it knows it has thrown "Unsupported target '...'."
\* and has applied no plugin and called no hook; for each of the seven
\* strings it has applied exactly one chunk loading template plugin, the one
\* of the target, and that plugin loads chunks asynchronously in node exactly
\* for async-node and electron-main.
C26_TargetChecked ==
    processed.state # "pending" =>
        LET known == options.target.type = "string" /\ options.target.value \in
                       {"web", "webworker", "node", "async-node", "node-webkit",
                        "electron-main", "electron-renderer"}
        IN  /\ (options.target.type \in {"string", "boolean"} /\ ~known) =>
                  /\ processed.state = "thrown"
                  /\ processed.message =
                        <<"Unsupported target '", options.target.value, "'.">>
                  /\ applied = <<>>
            /\ known =>
                  /\ Cardinality(AppliedAmong(TemplatePlugins)) = 1
                  /\ AppliedAmong(TemplatePlugins) = {1}
                  /\ applied[1].name = TemplateOf(options.target.value)
                  /\ applied[1].arg = "asyncChunkLoading: true"
                        <=> options.target.value \in {"async-node", "electron-main"}
                  /\ applied[1].name = "NodeTemplatePlugin" =>
                        applied[1].arg \in {"asyncChunkLoading: true",
                                            "asyncChunkLoading: false"}

\* process ran with target false and threw, with nothing applied
C26_Witness ==
    /\ processed.state = "thrown"
    /\ options.target.type = "boolean"
    /\ processed.message[2] = "false"
    /\ applied = <<>>

\* the positions at which process called the hook
HookCalls(name) ==
    {i \in 1..Len(applied) : applied[i].name = name /\ applied[i].arg = "call"}

\* the taps process registered on resolverFactory.hooks.resolveOptions
ResolveTaps == AppliedAmong({"resolveOptions"})

\* C27: in every run of process each of entryOption, afterPlugins and
\* afterResolvers is called at most once; afterPlugins only after
\* entryOption and afterResolvers only after afterPlugins; entryOption right
\* after EntryOptionPlugin and the module type plugins were applied,
\* afterPlugins after the last plugin process applies, afterResolvers last,
\* after the three resolveOptions taps.  When the compiler has no input
\* file system after afterPlugins, process has thrown "No input filesystem
\* provided", has registered no resolveOptions tap and has not called
\* afterResolvers.
C27_HookOrder ==
    processed.state # "pending" =>
        /\ \A name \in {"entryOption", "afterPlugins", "afterResolvers"} :
              Cardinality(HookCalls(name)) <= 1
        /\ \A i \in HookCalls("entryOption") :
              /\ applied[i - 1].name = "EntryOptionPlugin"
              /\ \A n \in {"JavascriptModulesPlugin", "JsonModulesPlugin",
                            "WebAssemblyModulesPlugin"} :
                    \E j \in AppliedAmong({n}) : j < i
        /\ \A i \in HookCalls("afterPlugins") :
              /\ \E j \in HookCalls("entryOption") : j < i
              /\ applied[i - 1].name = "ResolverCachePlugin"
              /\ \A j \in (i + 1)..Len(applied) :
                    applied[j].name \in {"resolveOptions", "afterResolvers"}
        /\ \A i \in HookCalls("afterResolvers") :
              /\ \E j \in HookCalls("afterPlugins") : j < i
              /\ i = Len(applied)
              /\ ResolveTaps = {i - 3, i - 2, i - 1}
        /\ processed.state = "returned" => HookCalls("afterResolvers") # {}
        /\ (~options.inputFileSystem /\ HookCalls("afterPlugins") # {}) =>
              /\ processed.state = "thrown"
              /\ processed.message = <<"No input filesystem provided">>
              /\ ResolveTaps = {}
              /\ HookCalls("afterResolvers") = {}

\* the compiler had no input file system: process called entryOption and
\* afterPlugins and then threw
C27_Witness ==
    /\ processed.state = "thrown"
    /\ ~options.inputFileSystem
    /\ HookCalls("entryOption") # {}
    /\ HookCalls("afterPlugins") = {Len(applied)}

\* the modules the manifest written as file f includes: those of its chunk
\* that have a library identity and, with entryOnly, are the target of an
\* EntryDependency
IncludedIn(f) ==
    {i \in ModuleIndexes :
        /\ libModules[i].chunk = outputFiles[f].chunk
        /\ libModules[i].ident # ""
        /\ libRun.entryOnly => libModules[i].entryDep}

\* C28: a written manifest has one entry for each distinct identity of the
\* modules it includes, and the entry of an identity is the one of the last
\* module, in module id order, that has it.
C28_LaterModuleWins ==
    \A f \in FileIds :
    \A written \in {WrittenContent(f)} : \A included \in {IncludedIn(f)} :
        /\ Len(written.items) =
              Cardinality({libModules[i].ident : i \in included})
        /\ \A i \in included :
              /\ Cardinality({k \in 1..Len(written.items) :
                                written.items[k].key = libModules[i].ident}) = 1
              /\ \E last \in included :
                    /\ libModules[last].ident = libModules[i].ident
                    /\ \A j \in included :
                          libModules[j].ident = libModules[i].ident => j <= last
                    /\ Get(Get(written, libModules[i].ident), "id") =
                          libModules[last].id
                    /\ Get(Get(written, libModules[i].ident), "exports") =
                          ExportsField(libModules[last].providedExports)

\* two modules of the first chunk have the identity ./a.js, with different
\* exports: the manifest has one entry, with the id of the second
C28_Witness ==
    /\ libRun.emitted
    /\ Len(libModules) = 2
    /\ libModules[1].chunk = 1 /\ libModules[2].chunk = 1
    /\ libModules[1].ident = "./a.js" /\ libModules[2].ident = "./a.js"
    /\ libModules[1].providedExports # libModules[2].providedExports
    /\ \E f \in FileIds :
          /\ outputFiles[f].chunk = 1
          /\ IncludedIn(f) = {1, 2}
          /\ Len(WrittenContent(f).items) = 1
          /\ Get(WrittenContent(f).items[1].val, "id") = libModules[2].id

====
